---- MODULE Spec2Model ----
(***************************************************************************)
(* aws-swiffer: the dependency-checked teardown engine.                    *)
(*                                                                         *)
(* The model covers the execution context, the confirmation gate, the five *)
(* VPC-scoped resource classes (subnet, security group, network interface, *)
(* NAT gateway, VPC endpoint) with their eligibility checks, remove and    *)
(* clean, the S3 bucket, the batch / single removal orchestrator and the   *)
(* CLI callback that seeds the process-wide context.                       *)
(*                                                                         *)
(* The cloud provider is an opaque synchronous boundary: every operation   *)
(* draws the provider's answers (a query fault at one call site, the error *)
(* code of a mutating call, the user's choice at the prompt) from small    *)
(* sets, and the provider-side facts of a resource are part of the state.  *)
(***************************************************************************)
EXTENDS Integers, Sequences, FiniteSets, TLC

VARIABLES
    ctx,            \* the ExecutionContext handed to remove / clean (or none)
    res,            \* the resource under operation: object fields + provider facts
    op,             \* the last operation run ("init" before the first)
    trace,          \* events of the last operation, in program order
    raised,         \* the exception the last operation raised to its caller, or "none"
    resources,      \* the list handed to the batch orchestrator
    success_count,  \* batch counters when the summary was logged
    failure_count,
    answers,        \* the provider's answers to the resources of the last batch
    environ,        \* os.environ: DRY_RUN / AUTO_APPROVE
    context,        \* callback.context, the process-wide ExecutionContext
    cliDryRun,      \* TRUE once the CLI callback has run with dry-run enabled
    returned,       \* the value the last query (exists, can_delete, ...) returned
    dependencies,   \* VPCResource.dependencies of each resource object
    dependents,     \* VPCResource.dependents of each resource object
    clients,        \* utils/aws.py: the dict `clients`
    aws_resources,  \* utils/aws.py: the dict `resources`
    created,        \* the handles boto3 created, in order of creation
    start_time,     \* `start_time = time.time()` of the wait loop in progress
    clock,          \* time.time(), in seconds
    collection      \* the VPCResourceCollection a filter method is called on

\* the dependency graph of the resource objects
graphVars == <<dependencies, dependents>>

\* the module state of utils/aws.py
cacheVars == <<clients, aws_resources, created>>

\* the clock of a wait loop
waitVars == <<start_time, clock>>

vars == <<ctx, res, op, trace, raised, resources, success_count, failure_count,
          answers, environ, context, cliDryRun, returned, graphVars, cacheVars, waitVars, collection>>

---------------------------------------------------------------------------
(* Bounds of the model.                                                    *)

\* longest list of network interfaces / route tables / routes / rules the provider returns
MaxItems == 1
\* longest dependency list of a resource
MaxDeps == 1
\* longest list handed to the batch orchestrator
MaxBatch == 2
\* most dependency edges linked between the resource objects
MaxEdges == 3
\* most get_client / get_resource calls of one process
MaxCalls == 3
\* most turns of a wait in which the provider still reports the state before deletion
MaxStale == 2

---------------------------------------------------------------------------
(* Events.  An operation's trace is the sequence of the provider calls it  *)
(* issues, the messages it logs and the gate evaluations it makes.         *)

Ev(kind, what, prefix) == [kind |-> kind, what |-> what, prefix |-> prefix]
Call(api) == Ev("call", api, "")
\* the resource id a provider delete call is issued with; precedes the call
Arg(id) == Ev("arg", id, "")
Log(prefix, msg) == Ev("log", msg, prefix)

\* provider calls that change provider state
MutatingCalls ==
    {"delete_subnet", "delete_security_group", "delete_network_interface",
     "delete_nat_gateway", "delete_vpc_endpoints", "detach_network_interface",
     "disassociate_route_table", "disassociate_address", "delete_route",
     "revoke_security_group_ingress", "revoke_security_group_egress",
     "object_versions.delete", "objects.delete", "bucket_website.delete",
     "bucket.delete", "delete_table", "update_distribution", "delete_distribution",
     "group.remove_user", "group.delete"}

\* the provider delete call of each resource type
DeleteCall(type) ==
    CASE type = "subnet" -> "delete_subnet"
      [] type = "security-group" -> "delete_security_group"
      [] type = "network-interface" -> "delete_network_interface"
      [] type = "nat-gateway" -> "delete_nat_gateway"
      [] type = "vpc-endpoint" -> "delete_vpc_endpoints"
      [] type = "table" -> "delete_table"
      [] type = "distribution" -> "delete_distribution"
      [] type = "group" -> "group.delete"
      [] OTHER -> "bucket.delete"

RECURSIVE CountEv(_, _)
CountEv(s, e) ==
    IF s = <<>> THEN 0
    ELSE (IF Head(s) = e THEN 1 ELSE 0) + CountEv(Tail(s), e)

HasMutatingCall(s) ==
    \E i \in 1..Len(s) : s[i].kind = "call" /\ s[i].what \in MutatingCalls

HasCall(s, api) == \E i \in 1..Len(s) : s[i] = Call(api)

HasLog(s, msg) == \E i \in 1..Len(s) : s[i].kind = "log" /\ s[i].what = msg

\* the "Would <action>" messages of the dry-run branches
WouldMessages ==
    {"Would <op>", "Would delete", "Would delete network interface",
     "Would disassociate route table", "Would remove inbound rules",
     "Would remove custom outbound rules", "Would detach network interface",
     "Would disassociate Elastic IP", "Would remove route", "Would clean bucket"}

HasWould(s) == \E i \in 1..Len(s) : s[i].kind = "log" /\ s[i].what \in WouldMessages

\* index of the first event satisfying a kind/what pair, 0 when absent
FirstIndex(s, kind, whats) ==
    IF \E i \in 1..Len(s) : s[i].kind = kind /\ s[i].what \in whats
    THEN CHOOSE i \in 1..Len(s) :
            /\ s[i].kind = kind /\ s[i].what \in whats
            /\ \A j \in 1..(i - 1) : ~(s[j].kind = kind /\ s[j].what \in whats)
    ELSE 0

---------------------------------------------------------------------------
(* Results of a modelled function: its return value, whether it raised,    *)
(* the events it produced and the resource with the provider facts after.  *)

Ret(v, ev, r) == [ret |-> v, raised |-> FALSE, ev |-> ev, r |-> r]
Raise(exc, ev, r) == [ret |-> exc, raised |-> TRUE, ev |-> ev, r |-> r]

---------------------------------------------------------------------------
(* ExecutionContext.                                                       *)

\* `context: ExecutionContext = None`: present = FALSE stands for None
NoContext == [present |-> FALSE, dry_run |-> FALSE, auto_approve |-> FALSE]
ExecutionContext(dry_run, auto_approve) ==
    [present |-> TRUE, dry_run |-> dry_run, auto_approve |-> auto_approve]

Contexts ==
    {NoContext} \cup {ExecutionContext(d, a) : d \in BOOLEAN, a \in BOOLEAN}

log_prefix(c) ==
    IF c.dry_run THEN "[DRY-RUN] "
    ELSE IF c.auto_approve THEN "[AUTO-APPROVE] "
    ELSE ""

\* `prefix = context.log_prefix() if context else ""`
Prefix(c) == IF c.present THEN log_prefix(c) ELSE ""

---------------------------------------------------------------------------
(* Inputs of one operation: what the provider and the user answer.         *)

\* call sites at which a provider query can fail with an unclassified error
FaultSites ==
    {"none", "is_default_resource", "exists", "can_delete.state",
     "can_delete.interfaces", "can_delete.instances", "can_delete.references",
     "can_delete.route_tables", "clean.list", "clean.route_tables",
     "detach.describe", "wait.describe", "group.load", "get_distribution_config"}

\* error code a mutating provider call answers with ("ok": it succeeds)
MutErrors == {"ok", "NotFound", "DependencyViolation", "InUse", "Other"}

\* answer to an auxiliary mutating call (detach, disassociate, revoke, delete_route)
AuxErrors == {"ok", "Other"}

\* how an asynchronous detachment shows up in the polls of the wait loop
Progress == {"at-once", "never"}

Inputs ==
    [fault : FaultSites, mutErr : MutErrors, auxErr : AuxErrors, choice : BOOLEAN,
     absentAs : {"error", "empty"}, progress : Progress]

---------------------------------------------------------------------------
(* utils/input.py and the confirmation gate of IResource.                  *)

\* number of parameters `def ask_delete_confirm(resource_name)` declares
ask_delete_confirm_params == 1

\* a Python call binds only when the positional arguments fit the parameters;
\* otherwise the call raises TypeError before the body runs
ask_delete_confirm(args, choice, r) ==
    IF Len(args) # ask_delete_confirm_params
    THEN Raise("TypeError", <<>>, r)
    ELSE Ret(choice, <<Ev("prompt", "Confirm deletion", "")>>, r)

\* the gate records its own evaluation in the trace: Ev("gate", result)
Gate(result) == Ev("gate", result, "")

_should_proceed_auto_first(r, c, inp) ==
    IF c.present /\ c.auto_approve
    THEN Ret(TRUE, <<Log(log_prefix(c), "Auto-approving <op>"), Gate("true")>>, r)
    ELSE IF c.present /\ c.dry_run
    THEN Ret(FALSE, <<Log(log_prefix(c), "Would <op>"), Gate("false")>>, r)
    ELSE Ret(inp.choice, <<Gate(IF inp.choice THEN "true" ELSE "false")>>, r)

_should_proceed(r, c, inp) ==
    IF c.present /\ c.dry_run
    THEN Ret(FALSE, <<Log(log_prefix(c), "Would <op>"), Gate("false")>>, r)
    ELSE IF c.present /\ c.auto_approve
    THEN Ret(TRUE, <<Log(log_prefix(c), "Auto-approving <op>"), Gate("true")>>, r)
    ELSE LET a == ask_delete_confirm(<<"self.name", "context">>, inp.choice, r)
         IN  IF a.raised
             THEN Raise(a.ret, a.ev \o <<Gate("raise")>>, r)
             ELSE Ret(a.ret, a.ev \o <<Gate(IF a.ret THEN "true" ELSE "false")>>, r)

---------------------------------------------------------------------------
(* Resources: the fields of the object together with the facts the         *)
(* provider holds about it.                                                *)

NoAttachment ==
    [has |-> FALSE, instance |-> FALSE, attachmentId |-> FALSE, deviceIndex |-> 0,
     status |-> "detached"]

Resource(id, type) ==
    [id |-> id, type |-> type,
     interface_type |-> "interface",  \* NetworkInterfaceResource.interface_type
     deps |-> <<>>,                   \* VPCResource.dependencies
     present |-> TRUE,                \* the provider knows the id
     isDefault |-> FALSE,             \* DefaultForAz / GroupName == 'default'
     state |-> "available",           \* State of a NAT gateway / VPC endpoint
     enis |-> <<>>,                   \* interfaces in the subnet / using the group
     instances |-> 0,                 \* instances matched by the state filter
     routeTables |-> <<>>,            \* route tables of the subnet / of the VPC
     groups |-> <<>>,                 \* security groups of the VPC
     inbound |-> 0,                   \* IpPermissions of the group
     outbound |-> <<>>,               \* IpPermissionsEgress of the group
     attachment |-> NoAttachment,     \* Attachment of the interface
     instanceState |-> "running",     \* state of the instance it is attached to
     eips |-> 0,                      \* Elastic IP associations of the interface
     enabled |-> TRUE,                \* DistributionConfig['Enabled'] of a distribution
     users |-> 0,                     \* users of an IAM group
     unsuccessful |-> FALSE]          \* delete_vpc_endpoints answers Unsuccessful

\* what the provider holds once the resource is deleted
Gone(r) ==
    [Resource(r.id, r.type) EXCEPT !.present = FALSE, !.deps = r.deps,
                                   !.interface_type = r.interface_type]

\* outcome of a describe call by id at a call site
DescribeById(r, site, inp) ==
    IF inp.fault = site THEN "Other"
    ELSE IF r.present THEN "ok"
    ELSE IF r.type \in {"nat-gateway", "vpc-endpoint"} /\ inp.absentAs = "empty"
    THEN "empty"
    ELSE "NotFound"

\* outcome of a describe call with Filters at a call site
DescribeFiltered(site, inp) == IF inp.fault = site THEN "Other" ELSE "ok"

\* outcome of the provider delete call of the resource itself
DeleteOutcome(r, inp) == IF r.present THEN inp.mutErr ELSE "NotFound"

---------------------------------------------------------------------------
(* is_default_resource() and exists() of the VPC-scoped classes.           *)

SubnetResource_is_default_resource_fail_open(r, inp) ==
    LET q == DescribeById(r, "is_default_resource", inp)
    IN  IF q = "ok"
        THEN Ret(r.isDefault,
                 <<Call("describe_subnets")>> \o
                 (IF r.isDefault THEN <<Log("", "default subnet protected")>> ELSE <<>>), r)
        ELSE Ret(FALSE, <<Call("describe_subnets"), Log("", "Error checking default")>>, r)

SubnetResource_is_default_resource(r, inp) ==
    LET q == DescribeById(r, "is_default_resource", inp)
    IN  IF q = "ok"
        THEN Ret(r.isDefault,
                 <<Call("describe_subnets")>> \o
                 (IF r.isDefault THEN <<Log("", "default subnet protected")>> ELSE <<>>), r)
        ELSE Ret(TRUE, <<Call("describe_subnets"), Log("", "Error checking default")>>, r)

SecurityGroupResource_is_default_resource(r, inp) ==
    LET q == DescribeById(r, "is_default_resource", inp)
    IN  IF q = "ok"
        THEN Ret(r.isDefault,
                 <<Call("describe_security_groups")>> \o
                 (IF r.isDefault THEN <<Log("", "default security group protected")>>
                  ELSE <<>>), r)
        ELSE Ret(TRUE, <<Call("describe_security_groups"),
                         Log("", "Error checking default")>>, r)

aws_managed_types ==
    {"nat_gateway", "vpc_endpoint", "load_balancer", "lambda", "efs", "rds",
     "elasticache", "redshift", "workspaces", "directory_service"}

NetworkInterfaceResource_is_default_resource(r, inp) ==
    LET is_managed == r.interface_type \in aws_managed_types
    IN  Ret(is_managed,
            IF is_managed THEN <<Log("", "AWS-managed interface protected")>> ELSE <<>>, r)

NATGatewayResource_is_default_resource(r, inp) == Ret(FALSE, <<>>, r)

VPCEndpointResource_is_default_resource(r, inp) == Ret(FALSE, <<>>, r)

\* self.is_default_resource(): dispatch on the class of the object
is_default_resource(r, inp) ==
    CASE r.type = "subnet" -> SubnetResource_is_default_resource(r, inp)
      [] r.type = "security-group" -> SecurityGroupResource_is_default_resource(r, inp)
      [] r.type = "network-interface" -> NetworkInterfaceResource_is_default_resource(r, inp)
      [] r.type = "nat-gateway" -> NATGatewayResource_is_default_resource(r, inp)
      [] r.type = "vpc-endpoint" -> VPCEndpointResource_is_default_resource(r, inp)

DescribeExists_fail_open(r, api, inp) ==
    LET q == DescribeById(r, "exists", inp)
    IN  IF q = "ok" THEN Ret(TRUE, <<Call(api)>>, r)
        ELSE Ret(FALSE, <<Call(api)>>, r)

\* exists() of subnet, security group and network interface: describe by id
DescribeExists(r, api, inp) ==
    LET q == DescribeById(r, "exists", inp)
    IN  IF q = "ok" THEN Ret(TRUE, <<Call(api)>>, r)
        ELSE IF q = "NotFound" THEN Ret(FALSE, <<Call(api)>>, r)
        ELSE Ret(TRUE, <<Call(api), Log("", "Error checking existence")>>, r)

SubnetResource_exists(r, inp) == DescribeExists(r, "describe_subnets", inp)

SecurityGroupResource_exists(r, inp) == DescribeExists(r, "describe_security_groups", inp)

NetworkInterfaceResource_exists(r, inp) ==
    DescribeExists(r, "describe_network_interfaces", inp)

\* exists() of NAT gateway and VPC endpoint: an empty answer or a deleted / failed state
StateExists(r, api, inp) ==
    LET q == DescribeById(r, "exists", inp)
    IN  IF q = "ok" THEN Ret(r.state \notin {"deleted", "failed"}, <<Call(api)>>, r)
        ELSE IF q \in {"empty", "NotFound"} THEN Ret(FALSE, <<Call(api)>>, r)
        ELSE Ret(TRUE, <<Call(api), Log("", "Error checking existence")>>, r)

NATGatewayResource_exists(r, inp) == StateExists(r, "describe_nat_gateways", inp)

VPCEndpointResource_exists(r, inp) == StateExists(r, "describe_vpc_endpoints", inp)

\* dependency.exists(): dispatch on the class of the object
exists(r, inp) ==
    CASE r.type = "subnet" -> SubnetResource_exists(r, inp)
      [] r.type = "security-group" -> SecurityGroupResource_exists(r, inp)
      [] r.type = "network-interface" -> NetworkInterfaceResource_exists(r, inp)
      [] r.type = "nat-gateway" -> NATGatewayResource_exists(r, inp)
      [] r.type = "vpc-endpoint" -> VPCEndpointResource_exists(r, inp)

---------------------------------------------------------------------------
(* VPCResource.can_delete: default protection, then the dependency walk.   *)

RECURSIVE DependencyWalk_transitive(_, _)
DependencyWalk_transitive(deps, inp) ==
    IF deps = <<>> THEN [ret |-> FALSE, ev |-> <<>>]
    ELSE LET e == exists(Head(deps), inp)
             here == <<Ev("exists", Head(deps).id, "")>> \o e.ev
             inner == DependencyWalk_transitive(Head(deps).deps, inp)
             rest == DependencyWalk_transitive(Tail(deps), inp)
         IN  IF e.ret
             THEN [ret |-> TRUE, ev |-> here \o <<Log("", "dependency exists")>>]
             ELSE IF inner.ret THEN [ret |-> TRUE, ev |-> here \o inner.ev]
             ELSE [ret |-> rest.ret, ev |-> here \o inner.ev \o rest.ev]

\* `for dependency in self.dependencies: if dependency.exists(): return False`
\* ret = TRUE iff some dependency exists; the walk stops at the first one
RECURSIVE DependencyWalk(_, _)
DependencyWalk(deps, inp) ==
    IF deps = <<>> THEN [ret |-> FALSE, ev |-> <<>>]
    ELSE LET e == exists(Head(deps), inp)
             here == <<Ev("exists", Head(deps).id, "")>> \o e.ev
         IN  IF e.ret
             THEN [ret |-> TRUE, ev |-> here \o <<Log("", "dependency exists")>>]
             ELSE LET rest == DependencyWalk(Tail(deps), inp)
                  IN  [ret |-> rest.ret, ev |-> here \o rest.ev]

VPCResource_can_delete_no_default_check(r, inp) ==
    LET Body(w) ==
                IF w.ret THEN Ret(FALSE, w.ev, r) ELSE Ret(TRUE, w.ev, r)
    IN  Body(DependencyWalk(r.deps, inp))

VPCResource_can_delete_no_walk(r, inp) ==
    LET Body(d) ==
                IF d.ret
                THEN Ret(FALSE, d.ev \o <<Log("", "Cannot delete default resource")>>, r)
                ELSE Ret(TRUE, d.ev, r)
    IN  Body(is_default_resource(r, inp))

VPCResource_can_delete(r, inp) ==
    LET Body(d) ==
                IF d.ret
                THEN Ret(FALSE, d.ev \o <<Log("", "Cannot delete default resource")>>, r)
                ELSE LET w == DependencyWalk(r.deps, inp)
                     IN  IF w.ret THEN Ret(FALSE, d.ev \o w.ev, r)
                         ELSE Ret(TRUE, d.ev \o w.ev, r)
    IN  Body(is_default_resource(r, inp))

---------------------------------------------------------------------------
(* can_delete() of the five classes.                                       *)

SubnetResource_can_delete_no_instances(r, inp) ==
    LET Body(base) ==
            LET q1 == DescribeFiltered("can_delete.interfaces", inp)
                e1 == base.ev \o <<Call("describe_network_interfaces")>>
            IN  IF ~base.ret THEN Ret(FALSE, base.ev, r)
                ELSE IF q1 # "ok" THEN Ret(FALSE, e1 \o <<Log("", "Error checking interfaces")>>, r)
                ELSE IF r.enis # <<>> THEN Ret(FALSE, e1 \o <<Log("", "has network interfaces")>>, r)
                ELSE Ret(TRUE, e1, r)
    IN  Body(VPCResource_can_delete(r, inp))

SubnetResource_can_delete(r, inp) ==
    LET Body(base) ==
            LET q1 == DescribeFiltered("can_delete.interfaces", inp)
                e1 == base.ev \o <<Call("describe_network_interfaces")>>
                q2 == DescribeFiltered("can_delete.instances", inp)
                e2 == e1 \o <<Call("describe_instances")>>
            IN  IF ~base.ret THEN Ret(FALSE, base.ev, r)
                ELSE IF q1 # "ok" THEN Ret(FALSE, e1 \o <<Log("", "Error checking interfaces")>>, r)
                ELSE IF r.enis # <<>> THEN Ret(FALSE, e1 \o <<Log("", "has network interfaces")>>, r)
                ELSE IF q2 # "ok" THEN Ret(FALSE, e2 \o <<Log("", "Error checking instances")>>, r)
                ELSE IF r.instances > 0 THEN Ret(FALSE, e2 \o <<Log("", "has instances")>>, r)
                ELSE Ret(TRUE, e2, r)
    IN  Body(VPCResource_can_delete(r, inp))

\* TRUE iff no other group of the VPC references this one in a rule
RECURSIVE GroupsClear(_)
GroupsClear(groups) ==
    IF groups = <<>> THEN TRUE
    ELSE IF Head(groups).self THEN GroupsClear(Tail(groups))
    ELSE IF Head(groups).inRef \/ Head(groups).outRef THEN FALSE
    ELSE GroupsClear(Tail(groups))

SecurityGroupResource__check_security_group_references_fail_open(r, inp) ==
    LET q == DescribeFiltered("can_delete.references", inp)
        e == <<Call("describe_security_groups")>>
    IN  IF q # "ok" THEN Ret(TRUE, e \o <<Log("", "Error checking references")>>, r)
        ELSE IF GroupsClear(r.groups) THEN Ret(TRUE, e, r)
        ELSE Ret(FALSE, e \o <<Log("", "referenced by another group")>>, r)

SecurityGroupResource__check_security_group_references(r, inp) ==
    LET q == DescribeFiltered("can_delete.references", inp)
        e == <<Call("describe_security_groups")>>
    IN  IF q # "ok" THEN Ret(FALSE, e \o <<Log("", "Error checking references")>>, r)
        ELSE IF GroupsClear(r.groups) THEN Ret(TRUE, e, r)
        ELSE Ret(FALSE, e \o <<Log("", "referenced by another group")>>, r)

SecurityGroupResource_can_delete(r, inp) ==
    LET Body(base, refs) ==
            LET q1 == DescribeFiltered("can_delete.instances", inp)
                e1 == base.ev \o <<Call("describe_instances")>>
                q2 == DescribeFiltered("can_delete.interfaces", inp)
                e2 == e1 \o <<Call("describe_network_interfaces")>>
            IN  IF ~base.ret THEN Ret(FALSE, base.ev, r)
                ELSE IF q1 # "ok" THEN Ret(FALSE, e1 \o <<Log("", "Error checking instances")>>, r)
                ELSE IF r.instances > 0 THEN Ret(FALSE, e1 \o <<Log("", "attached to instances")>>, r)
                ELSE IF q2 # "ok" THEN Ret(FALSE, e2 \o <<Log("", "Error checking interfaces")>>, r)
                ELSE IF r.enis # <<>> THEN Ret(FALSE, e2 \o <<Log("", "attached to interfaces")>>, r)
                ELSE Ret(refs.ret, e2 \o refs.ev, r)
    IN  Body(VPCResource_can_delete(r, inp),
             SecurityGroupResource__check_security_group_references(r, inp))

NetworkInterfaceResource_can_delete_running_only(r, inp) ==
    LET Body(base) ==
            LET q1 == DescribeById(r, "can_delete.state", inp)
                e1 == base.ev \o <<Call("describe_network_interfaces")>>
                a == r.attachment
                q2 == DescribeFiltered("can_delete.instances", inp)
                e2 == e1 \o <<Call("describe_instances")>>
            IN  IF ~base.ret THEN Ret(FALSE, base.ev, r)
                ELSE IF q1 # "ok" THEN Ret(FALSE, e1 \o <<Log("", "Error checking interface")>>, r)
                ELSE IF ~(a.has /\ a.instance) THEN Ret(TRUE, e1, r)
                ELSE IF a.deviceIndex = 0 THEN Ret(FALSE, e1 \o <<Log("", "primary interface")>>, r)
                ELSE IF q2 # "ok" THEN Ret(FALSE, e2 \o <<Log("", "Error checking instance state")>>, r)
                ELSE IF r.instanceState = "running"
                THEN Ret(FALSE, e2 \o <<Log("", "attached to running instance")>>, r)
                ELSE Ret(TRUE, e2, r)
    IN  Body(VPCResource_can_delete(r, inp))

NetworkInterfaceResource_can_delete(r, inp) ==
    LET Body(base) ==
            LET q1 == DescribeById(r, "can_delete.state", inp)
                e1 == base.ev \o <<Call("describe_network_interfaces")>>
                a == r.attachment
                q2 == DescribeFiltered("can_delete.instances", inp)
                e2 == e1 \o <<Call("describe_instances")>>
            IN  IF ~base.ret THEN Ret(FALSE, base.ev, r)
                ELSE IF q1 # "ok" THEN Ret(FALSE, e1 \o <<Log("", "Error checking interface")>>, r)
                ELSE IF ~(a.has /\ a.instance) THEN Ret(TRUE, e1, r)
                ELSE IF a.deviceIndex = 0 THEN Ret(FALSE, e1 \o <<Log("", "primary interface")>>, r)
                ELSE IF q2 # "ok" THEN Ret(FALSE, e2 \o <<Log("", "Error checking instance state")>>, r)
                ELSE IF r.instanceState \in {"pending", "running", "stopping"}
                THEN Ret(FALSE, e2 \o <<Log("", "attached to running instance")>>, r)
                ELSE Ret(TRUE, e2, r)
    IN  Body(VPCResource_can_delete(r, inp))

\* TRUE iff no route of any route table names this gateway
RoutesClear(routeTables) ==
    \A i \in 1..Len(routeTables) :
        \A j \in 1..Len(routeTables[i].routes) : ~routeTables[i].routes[j].nat

NATGatewayResource__check_route_table_references(r, inp) ==
    LET q == DescribeFiltered("can_delete.route_tables", inp)
        e == <<Call("describe_route_tables")>>
    IN  IF q # "ok" THEN Ret(FALSE, e \o <<Log("", "Error checking route tables")>>, r)
        ELSE IF RoutesClear(r.routeTables) THEN Ret(TRUE, e, r)
        ELSE Ret(FALSE, e \o <<Log("", "referenced by route table")>>, r)

NATGatewayResource_can_delete_any_state(r, inp) ==
    LET Body(base, refs) ==
            LET q == DescribeById(r, "can_delete.state", inp)
                e == base.ev \o <<Call("describe_nat_gateways")>>
            IN  IF ~base.ret THEN Ret(FALSE, base.ev, r)
                ELSE IF q \in {"Other", "NotFound"}
                THEN Ret(FALSE, e \o <<Log("", "Error checking NAT Gateway")>>, r)
                ELSE IF q = "empty" THEN Ret(FALSE, e \o <<Log("", "NAT Gateway not found")>>, r)
                ELSE Ret(refs.ret, e \o refs.ev, r)
    IN  Body(VPCResource_can_delete(r, inp),
             NATGatewayResource__check_route_table_references(r, inp))

NATGatewayResource_can_delete(r, inp) ==
    LET Body(base, refs) ==
            LET q == DescribeById(r, "can_delete.state", inp)
                e == base.ev \o <<Call("describe_nat_gateways")>>
            IN  IF ~base.ret THEN Ret(FALSE, base.ev, r)
                ELSE IF q \in {"Other", "NotFound"}
                THEN Ret(FALSE, e \o <<Log("", "Error checking NAT Gateway")>>, r)
                ELSE IF q = "empty" THEN Ret(FALSE, e \o <<Log("", "NAT Gateway not found")>>, r)
                ELSE IF r.state \notin {"available", "failed"}
                THEN Ret(FALSE, e \o <<Log("", "state cannot be deleted")>>, r)
                ELSE Ret(refs.ret, e \o refs.ev, r)
    IN  Body(VPCResource_can_delete(r, inp),
             NATGatewayResource__check_route_table_references(r, inp))

VPCEndpointResource_can_delete(r, inp) ==
    LET Body(base) ==
            LET q == DescribeById(r, "can_delete.state", inp)
                e == base.ev \o <<Call("describe_vpc_endpoints")>>
            IN  IF ~base.ret THEN Ret(FALSE, base.ev, r)
                ELSE IF q \in {"Other", "NotFound"}
                THEN Ret(FALSE, e \o <<Log("", "Error checking VPC Endpoint")>>, r)
                ELSE IF q = "empty" THEN Ret(FALSE, e \o <<Log("", "VPC Endpoint not found")>>, r)
                ELSE IF r.state \notin {"available", "failed"}
                THEN Ret(FALSE, e \o <<Log("", "state cannot be deleted")>>, r)
                ELSE Ret(TRUE, e, r)
    IN  Body(VPCResource_can_delete(r, inp))

\* self.can_delete(): dispatch on the class of the object
can_delete(r, inp) ==
    CASE r.type = "subnet" -> SubnetResource_can_delete(r, inp)
      [] r.type = "security-group" -> SecurityGroupResource_can_delete(r, inp)
      [] r.type = "network-interface" -> NetworkInterfaceResource_can_delete(r, inp)
      [] r.type = "nat-gateway" -> NATGatewayResource_can_delete(r, inp)
      [] r.type = "vpc-endpoint" -> VPCEndpointResource_can_delete(r, inp)

---------------------------------------------------------------------------
(* remove() of the five classes.                                           *)

\* the result of `self.can_delete()` as remove sees it, recorded in the trace
Checked(cd) == cd.ev \o <<Ev("can_delete", IF cd.ret THEN "true" ELSE "false", "")>>

\* the message remove logs for the error code of a failed delete call
ErrorMessage(code, known) ==
    IF code = "NotFound" /\ "NotFound" \in known
    THEN "not found - may have been deleted already"
    ELSE IF code = "DependencyViolation" /\ "DependencyViolation" \in known
    THEN "dependency violation"
    ELSE IF code = "InUse" /\ "InUse" \in known THEN "in use"
    ELSE "Failed to delete"

SubnetResource_remove_gate_first(r, c, inp) ==
    LET Body(g, cd) ==
            LET p == Prefix(c)
                e0 == <<Log(p, "Attempting to delete")>>
                e1 == e0 \o g.ev
                e2 == e1 \o Checked(cd)
                d == DeleteOutcome(r, inp)
                e3 == e2 \o <<Arg(r.id), Call("delete_subnet")>>
            IN  IF g.raised THEN Raise(g.ret, e1, r)
                ELSE IF ~g.ret THEN Ret("None", e1 \o <<Log("", "deletion skipped")>>, r)
                ELSE IF ~cd.ret THEN Ret("None", e2 \o <<Log("", "Cannot delete")>>, r)
                ELSE IF d = "ok" THEN Ret("None", e3 \o <<Log(p, "Successfully deleted")>>, Gone(r))
                ELSE Ret("None", e3 \o <<Log(p, "Failed to delete")>>, r)
    IN  Body(_should_proceed(r, c, inp), can_delete(r, inp))

SubnetResource_remove_retry(r, c, inp) ==
    LET Body(cd, g) ==
            LET p == Prefix(c)
                e0 == <<Log(p, "Attempting to delete")>>
                e1 == e0 \o Checked(cd)
                e2 == e1 \o g.ev
                d == DeleteOutcome(r, inp)
                e3 == e2 \o <<Arg(r.id), Call("delete_subnet")>>
                e4 == e3 \o <<Arg(r.id), Call("delete_subnet")>>
            IN  IF ~cd.ret THEN Ret("None", e1 \o <<Log("", "Cannot delete")>>, r)
                ELSE IF g.raised THEN Raise(g.ret, e2, r)
                ELSE IF ~g.ret THEN Ret("None", e2 \o <<Log("", "deletion skipped")>>, r)
                ELSE IF c.present /\ c.dry_run THEN Ret("None", e2 \o <<Log(p, "Would delete")>>, r)
                ELSE IF d = "ok" THEN Ret("None", e3 \o <<Log(p, "Successfully deleted")>>, Gone(r))
                ELSE IF d \in {"DependencyViolation", "InUse"}
                THEN Ret("None",
                         e4 \o <<Log(p, ErrorMessage(d, {"NotFound", "DependencyViolation", "InUse"})),
                                 Log("", "Full error details")>>, r)
                ELSE Ret("None",
                         e3 \o <<Log(p, ErrorMessage(d, {"NotFound", "DependencyViolation", "InUse"})),
                                 Log("", "Full error details")>>, r)
    IN  Body(can_delete(r, inp), _should_proceed(r, c, inp))

SubnetResource_remove(r, c, inp) ==
    LET Body(cd, g) ==
            LET p == Prefix(c)
                e0 == <<Log(p, "Attempting to delete")>>
                e1 == e0 \o Checked(cd)
                e2 == e1 \o g.ev
                d == DeleteOutcome(r, inp)
                e3 == e2 \o <<Arg(r.id), Call("delete_subnet")>>
            IN  IF ~cd.ret THEN Ret("None", e1 \o <<Log("", "Cannot delete")>>, r)
                ELSE IF g.raised THEN Raise(g.ret, e2, r)
                ELSE IF ~g.ret THEN Ret("None", e2 \o <<Log("", "deletion skipped")>>, r)
                ELSE IF c.present /\ c.dry_run THEN Ret("None", e2 \o <<Log(p, "Would delete")>>, r)
                ELSE IF d = "ok" THEN Ret("None", e3 \o <<Log(p, "Successfully deleted")>>, Gone(r))
                ELSE Ret("None",
                         e3 \o <<Log(p, ErrorMessage(d, {"NotFound", "DependencyViolation", "InUse"})),
                                 Log("", "Full error details")>>, r)
    IN  Body(can_delete(r, inp), _should_proceed(r, c, inp))

SecurityGroupResource_remove(r, c, inp) ==
    LET Body(cd, g) ==
            LET p == Prefix(c)
                e0 == <<Log(p, "Attempting to delete")>>
                e1 == e0 \o Checked(cd)
                e2 == e1 \o g.ev
                d == DeleteOutcome(r, inp)
                e3 == e2 \o <<Arg(r.id), Call("delete_security_group")>>
            IN  IF ~cd.ret THEN Ret("None", e1 \o <<Log("", "Cannot delete")>>, r)
                ELSE IF g.raised THEN Raise(g.ret, e2, r)
                ELSE IF ~g.ret THEN Ret("None", e2 \o <<Log("", "deletion skipped")>>, r)
                ELSE IF c.present /\ c.dry_run THEN Ret("None", e2 \o <<Log(p, "Would delete")>>, r)
                ELSE IF d = "ok" THEN Ret("None", e3 \o <<Log(p, "Successfully deleted")>>, Gone(r))
                ELSE Ret("None",
                         e3 \o <<Log(p, ErrorMessage(d, {"NotFound", "DependencyViolation", "InUse"})),
                                 Log("", "Full error details")>>, r)
    IN  Body(can_delete(r, inp), _should_proceed(r, c, inp))

NATGatewayResource_remove(r, c, inp) ==
    LET Body(cd, g) ==
            LET p == Prefix(c)
                e0 == <<Log(p, "Attempting to delete")>>
                e1 == e0 \o Checked(cd)
                e2 == e1 \o g.ev
                d == DeleteOutcome(r, inp)
                e3 == e2 \o <<Arg(r.id), Call("delete_nat_gateway")>>
            IN  IF ~cd.ret THEN Ret("None", e1 \o <<Log("", "Cannot delete")>>, r)
                ELSE IF g.raised THEN Raise(g.ret, e2, r)
                ELSE IF ~g.ret THEN Ret("None", e2 \o <<Log("", "deletion skipped")>>, r)
                ELSE IF c.present /\ c.dry_run THEN Ret("None", e2 \o <<Log(p, "Would delete")>>, r)
                ELSE IF d = "ok"
                THEN \* ExecutionContext has no wait_for_completion attribute: no wait
                     Ret("None", e3 \o <<Log(p, "Initiated deletion")>>,
                         [r EXCEPT !.state = "deleting"])
                ELSE Ret("None",
                         e3 \o <<Log(p, ErrorMessage(d, {"NotFound", "DependencyViolation", "InUse"})),
                                 Log("", "Full error details")>>, r)
    IN  Body(can_delete(r, inp), _should_proceed(r, c, inp))

VPCEndpointResource_remove(r, c, inp) ==
    LET Body(cd, g) ==
            LET p == Prefix(c)
                e0 == <<Log(p, "Attempting to delete")>>
                e1 == e0 \o Checked(cd)
                e2 == e1 \o g.ev
                d == DeleteOutcome(r, inp)
                e3 == e2 \o <<Arg(r.id), Call("delete_vpc_endpoints")>>
            IN  IF ~cd.ret THEN Ret("None", e1 \o <<Log("", "Cannot delete")>>, r)
                ELSE IF g.raised THEN Raise(g.ret, e2, r)
                ELSE IF ~g.ret THEN Ret("None", e2 \o <<Log("", "deletion skipped")>>, r)
                ELSE IF c.present /\ c.dry_run THEN Ret("None", e2 \o <<Log(p, "Would delete")>>, r)
                ELSE IF d = "ok" /\ r.unsuccessful
                THEN Ret("None", e3 \o <<Log(p, "Failed to delete")>>, r)
                ELSE IF d = "ok"
                THEN Ret("None", e3 \o <<Log(p, "Initiated deletion")>>,
                         [r EXCEPT !.state = "deleting"])
                ELSE Ret("None",
                         e3 \o <<Log(p, ErrorMessage(d, {"NotFound"})),
                                 Log("", "Full error details")>>, r)
    IN  Body(can_delete(r, inp), _should_proceed(r, c, inp))

---------------------------------------------------------------------------
(* NetworkInterfaceResource: detachment, the wait loop and remove.         *)

\* `max_wait_time: int = 60` and `time.sleep(2)` of _wait_for_detachment
detach_max_wait_time == 60
detach_sleep == 2

\* `while time.time() - start_time < max_wait_time`: one describe per turn,
\* the clock advancing by the sleep between two turns.  The provider's answer
\* does not change during the wait, so a turn that does not return is
\* followed by the same turn until the clock runs out
detach_wait_turns == (detach_max_wait_time + detach_sleep - 1) \div detach_sleep

NetworkInterfaceResource__wait_for_detachment(r, c, inp) ==
    LET p == Prefix(c)
        q == DescribeById(r, "wait.describe", inp)
        e == <<Call("describe_network_interfaces")>>
        timeout == <<Log(p, "Timeout waiting to detach")>>
    IN  IF q = "NotFound" THEN Ret("gone", e, r)
        ELSE IF q # "ok"
        THEN Ret("error", e \o <<Log(p, "Error checking detachment status")>> \o timeout, r)
        ELSE IF ~r.attachment.has \/ r.attachment.status = "detached"
        THEN Ret("detached", e \o <<Log(p, "detached successfully")>>, r)
        ELSE Ret("timeout",
                 [k \in 1..detach_wait_turns |-> Call("describe_network_interfaces")]
                    \o timeout, r)

\* the provider's view of the interface once a detach call was accepted
Detaching(r, inp) ==
    IF inp.progress = "at-once" THEN [r EXCEPT !.attachment = NoAttachment] ELSE r

NetworkInterfaceResource__detach_if_needed_live(r, c, inp) ==
    LET p == Prefix(c)
        q == DescribeById(r, "detach.describe", inp)
        e0 == <<Call("describe_network_interfaces")>>
        a == r.attachment
        e1 == e0 \o <<Log(p, "Detaching network interface")>>
        e2 == e1 \o <<Call("detach_network_interface")>>
        r2 == Detaching(r, inp)
        w == NetworkInterfaceResource__wait_for_detachment(r2, c, inp)
    IN  IF q # "ok" THEN Ret("None", e0 \o <<Log(p, "Error checking attachment status")>>, r)
        ELSE IF ~(a.has /\ a.attachmentId) THEN Ret("None", e0, r)
        ELSE IF a.deviceIndex = 0 THEN Ret("None", e0, r)
        ELSE IF inp.auxErr # "ok"
        THEN \* the inner handler logs and re-raises; the outer `except ClientError` catches
             Ret("None", e2 \o <<Log(p, "Failed to detach"),
                                Log(p, "Error checking attachment status")>>, r)
        ELSE Ret("None", e2 \o w.ev \o <<Log(p, "Successfully detached")>>, r2)

NetworkInterfaceResource__detach_if_needed(r, c, inp) ==
    LET p == Prefix(c)
        q == DescribeById(r, "detach.describe", inp)
        e0 == <<Call("describe_network_interfaces")>>
        a == r.attachment
        e1 == e0 \o <<Log(p, "Detaching network interface")>>
        e2 == e1 \o <<Call("detach_network_interface")>>
        r2 == Detaching(r, inp)
        w == NetworkInterfaceResource__wait_for_detachment(r2, c, inp)
    IN  IF q # "ok" THEN Ret("None", e0 \o <<Log(p, "Error checking attachment status")>>, r)
        ELSE IF ~(a.has /\ a.attachmentId) THEN Ret("None", e0, r)
        ELSE IF a.deviceIndex = 0 THEN Ret("None", e0, r)
        ELSE IF c.present /\ c.dry_run
        THEN Ret("None", e1 \o <<Log(p, "Would detach network interface")>>, r)
        ELSE IF inp.auxErr # "ok"
        THEN \* the inner handler logs and re-raises; the outer `except ClientError` catches
             Ret("None", e2 \o <<Log(p, "Failed to detach"),
                                Log(p, "Error checking attachment status")>>, r)
        ELSE Ret("None", e2 \o w.ev \o <<Log(p, "Successfully detached")>>, r2)

NetworkInterfaceResource_remove(r, c, inp) ==
    LET Body(cd, g, det) ==
            LET p == Prefix(c)
                e0 == <<Log(p, "Attempting to delete")>>
                e1 == e0 \o Checked(cd)
                e2 == e1 \o g.ev
                d == DeleteOutcome(det.r, inp)
                e3 == e2 \o det.ev \o <<Arg(r.id), Call("delete_network_interface")>>
            IN  IF ~cd.ret THEN Ret("None", e1 \o <<Log("", "Cannot delete")>>, r)
                ELSE IF g.raised THEN Raise(g.ret, e2, r)
                ELSE IF ~g.ret THEN Ret("None", e2 \o <<Log("", "deletion skipped")>>, r)
                ELSE IF c.present /\ c.dry_run THEN Ret("None", e2 \o <<Log(p, "Would delete")>>, r)
                ELSE IF d = "ok"
                THEN Ret("None", e3 \o <<Log(p, "Successfully deleted")>>, Gone(det.r))
                ELSE Ret("None",
                         e3 \o <<Log(p, ErrorMessage(d, {"NotFound", "DependencyViolation", "InUse"})),
                                 Log("", "Full error details")>>, det.r)
    IN  Body(can_delete(r, inp),
             _should_proceed(r, c, inp),
             NetworkInterfaceResource__detach_if_needed(r, c, inp))

\* resource.remove(context=...): dispatch on the class of the object
VPC_remove(r, c, inp) ==
    CASE r.type = "subnet" -> SubnetResource_remove(r, c, inp)
      [] r.type = "security-group" -> SecurityGroupResource_remove(r, c, inp)
      [] r.type = "network-interface" -> NetworkInterfaceResource_remove(r, c, inp)
      [] r.type = "nat-gateway" -> NATGatewayResource_remove(r, c, inp)
      [] r.type = "vpc-endpoint" -> VPCEndpointResource_remove(r, c, inp)

---------------------------------------------------------------------------
(* clean() of the five classes.                                            *)

subnet_skipped_types == {"nat_gateway", "vpc_endpoint", "load_balancer", "lambda"}

\* the loop body of _clean_network_interfaces over the interfaces of the subnet;
\* kept = the interfaces the provider still holds afterwards
RECURSIVE SubnetResource__clean_eni_loop(_, _, _)
SubnetResource__clean_eni_loop(enis, c, inp) ==
    IF enis = <<>> THEN [ev |-> <<>>, kept |-> <<>>]
    ELSE
      LET p == Prefix(c)
          eni == Head(enis)
          rest == SubnetResource__clean_eni_loop(Tail(enis), c, inp)
          skip == [ev |-> rest.ev, kept |-> <<eni>> \o rest.kept]
          e0 == <<Log(p, "Cleaning network interface")>>
          detach == eni.status = "in-use" /\ eni.attached # "none"
          e1 == e0 \o (IF detach THEN <<Log(p, "Detaching network interface"),
                                        Call("detach_network_interface")>> ELSE <<>>)
          e2 == e1 \o <<Call("delete_network_interface")>>
      IN  IF eni.itype \in subnet_skipped_types THEN skip
          ELSE IF eni.attached = "instance" THEN skip
          ELSE IF c.present /\ c.dry_run
          THEN [ev |-> e0 \o <<Log(p, "Would delete network interface")>> \o rest.ev,
                kept |-> <<eni>> \o rest.kept]
          ELSE IF detach /\ inp.auxErr # "ok"
          THEN [ev |-> e1 \o <<Log(p, "Failed to clean network interface")>> \o rest.ev,
                kept |-> <<eni>> \o rest.kept]
          ELSE IF inp.mutErr # "ok"
          THEN [ev |-> e2 \o <<Log(p, "Failed to clean network interface")>> \o rest.ev,
                kept |-> <<eni>> \o rest.kept]
          ELSE [ev |-> e2 \o <<Log(p, "Deleted network interface")>> \o rest.ev,
                kept |-> rest.kept]

SubnetResource__clean_network_interfaces(r, c, inp) ==
    LET Body(loop) ==
            LET p == Prefix(c)
                q == DescribeFiltered("clean.list", inp)
                e == <<Call("describe_network_interfaces")>>
            IN  IF q # "ok" THEN Ret("None", e \o <<Log(p, "Error listing network interfaces")>>, r)
                ELSE Ret("None", e \o loop.ev, [r EXCEPT !.enis = loop.kept])
    IN  Body(SubnetResource__clean_eni_loop(r.enis, c, inp))

RECURSIVE SubnetResource__clean_rt_loop(_, _, _)
SubnetResource__clean_rt_loop(tables, c, inp) ==
    IF tables = <<>> THEN [ev |-> <<>>, kept |-> <<>>]
    ELSE
      LET p == Prefix(c)
          rt == Head(tables)
          rest == SubnetResource__clean_rt_loop(Tail(tables), c, inp)
          e0 == <<Log(p, "Disassociating route table")>>
          e1 == e0 \o <<Call("disassociate_route_table")>>
      IN  IF rt.main THEN [ev |-> rest.ev, kept |-> <<rt>> \o rest.kept]
          ELSE IF c.present /\ c.dry_run
          THEN [ev |-> e0 \o <<Log(p, "Would disassociate route table")>> \o rest.ev,
                kept |-> <<rt>> \o rest.kept]
          ELSE IF inp.auxErr # "ok"
          THEN [ev |-> e1 \o <<Log(p, "Failed to disassociate route table")>> \o rest.ev,
                kept |-> <<rt>> \o rest.kept]
          ELSE [ev |-> e1 \o <<Log(p, "Disassociated route table")>> \o rest.ev,
                kept |-> rest.kept]

SubnetResource__clean_route_table_associations(r, c, inp) ==
    LET Body(loop) ==
            LET p == Prefix(c)
                q == DescribeFiltered("clean.route_tables", inp)
                e == <<Call("describe_route_tables")>>
            IN  IF q # "ok" THEN Ret("None", e \o <<Log(p, "Error listing route tables")>>, r)
                ELSE Ret("None", e \o loop.ev, [r EXCEPT !.routeTables = loop.kept])
    IN  Body(SubnetResource__clean_rt_loop(r.routeTables, c, inp))

SubnetResource_clean(r, c, inp) ==
    LET Then(a) ==
            LET Body(b) ==
                    Ret("None", <<Log(Prefix(c), "Cleaning dependencies")>> \o a.ev \o b.ev, b.r)
            IN  Body(SubnetResource__clean_route_table_associations(a.r, c, inp))
    IN  Then(SubnetResource__clean_network_interfaces(r, c, inp))

\* the default allow-all outbound rule: all protocols to 0.0.0.0/0 and nothing else
is_default_rule(rule) ==
    /\ rule.IpProtocol = "-1"
    /\ Len(rule.IpRanges) = 1
    /\ rule.IpRanges[1] = "0.0.0.0/0"
    /\ ~rule.others

custom_outbound_rules(rules) == SelectSeq(rules, LAMBDA x : ~is_default_rule(x))

SecurityGroupResource__clean_security_group_rules(r, c, inp) ==
    LET p == Prefix(c)
        q == DescribeById(r, "clean.list", inp)
        e0 == <<Call("describe_security_groups")>>
        dry == c.present /\ c.dry_run
        \* inbound rules
        eIn == IF r.inbound = 0 THEN <<>>
               ELSE <<Log(p, "Removing inbound rules")>> \o
                    (IF dry THEN <<Log(p, "Would remove inbound rules")>>
                     ELSE <<Call("revoke_security_group_ingress")>> \o
                          (IF inp.auxErr = "ok" THEN <<Log(p, "Removed inbound rules")>>
                           ELSE <<Log(p, "Failed to remove inbound rules")>>))
        inAfter == IF r.inbound > 0 /\ ~dry /\ inp.auxErr = "ok" THEN 0 ELSE r.inbound
        \* custom outbound rules
        custom == custom_outbound_rules(r.outbound)
        eOut == IF custom = <<>> THEN <<>>
                ELSE <<Log(p, "Removing custom outbound rules")>> \o
                     (IF dry THEN <<Log(p, "Would remove custom outbound rules")>>
                      ELSE <<Call("revoke_security_group_egress")>> \o
                           (IF inp.auxErr = "ok" THEN <<Log(p, "Removed outbound rules")>>
                            ELSE <<Log(p, "Failed to remove outbound rules")>>))
        outAfter == IF custom # <<>> /\ ~dry /\ inp.auxErr = "ok"
                    THEN SelectSeq(r.outbound, is_default_rule) ELSE r.outbound
    IN  IF q # "ok" THEN Ret("None", e0 \o <<Log(p, "Error cleaning rules")>>, r)
        ELSE Ret("None", e0 \o eIn \o eOut,
                 [r EXCEPT !.inbound = inAfter, !.outbound = outAfter])

SecurityGroupResource_clean(r, c, inp) ==
    LET Body(a) ==
                Ret("None", <<Log(Prefix(c), "Cleaning dependencies")>> \o a.ev, a.r)
    IN  Body(SecurityGroupResource__clean_security_group_rules(r, c, inp))

\* the loop of _clean_elastic_ip_associations over the associated addresses;
\* left = the associations the provider still holds afterwards
RECURSIVE NetworkInterfaceResource__clean_eip_loop(_, _, _)
NetworkInterfaceResource__clean_eip_loop(n, c, inp) ==
    IF n = 0 THEN [ev |-> <<>>, left |-> 0]
    ELSE
      LET p == Prefix(c)
          rest == NetworkInterfaceResource__clean_eip_loop(n - 1, c, inp)
          e0 == <<Log(p, "Disassociating Elastic IP")>>
          e1 == e0 \o <<Call("disassociate_address")>>
      IN  IF c.present /\ c.dry_run
          THEN [ev |-> e0 \o <<Log(p, "Would disassociate Elastic IP")>> \o rest.ev,
                left |-> 1 + rest.left]
          ELSE IF inp.auxErr # "ok"
          THEN [ev |-> e1 \o <<Log(p, "Failed to disassociate Elastic IP")>> \o rest.ev,
                left |-> 1 + rest.left]
          ELSE [ev |-> e1 \o <<Log(p, "Disassociated Elastic IP")>> \o rest.ev,
                left |-> rest.left]

NetworkInterfaceResource__clean_elastic_ip_associations(r, c, inp) ==
    LET Body(loop) ==
            LET p == Prefix(c)
                q == DescribeById(r, "clean.list", inp)
                e == <<Call("describe_network_interfaces")>>
            IN  IF q # "ok" THEN Ret("None", e \o <<Log(p, "Error checking Elastic IP")>>, r)
                ELSE Ret("None", e \o loop.ev, [r EXCEPT !.eips = loop.left])
    IN  Body(NetworkInterfaceResource__clean_eip_loop(r.eips, c, inp))

NetworkInterfaceResource_clean(r, c, inp) ==
    LET a == NetworkInterfaceResource__clean_elastic_ip_associations(r, c, inp)
        b == NetworkInterfaceResource__detach_if_needed(a.r, c, inp)
    IN  Ret("None", <<Log(Prefix(c), "Cleaning dependencies")>> \o a.ev \o b.ev, b.r)

\* the routes of one route table: those naming the gateway with a destination go
RECURSIVE NATGatewayResource__clean_route_loop(_, _, _)
NATGatewayResource__clean_route_loop(routes, c, inp) ==
    IF routes = <<>> THEN [ev |-> <<>>, kept |-> <<>>]
    ELSE
      LET p == Prefix(c)
          route == Head(routes)
          rest == NATGatewayResource__clean_route_loop(Tail(routes), c, inp)
          e0 == <<Log(p, "Removing route")>>
          e1 == e0 \o <<Call("delete_route")>>
      IN  IF ~(route.nat /\ route.dest # "none")
          THEN [ev |-> rest.ev, kept |-> <<route>> \o rest.kept]
          ELSE IF c.present /\ c.dry_run
          THEN [ev |-> e0 \o <<Log(p, "Would remove route")>> \o rest.ev,
                kept |-> <<route>> \o rest.kept]
          ELSE IF inp.auxErr # "ok"
          THEN [ev |-> e1 \o <<Log(p, "Failed to remove route")>> \o rest.ev,
                kept |-> <<route>> \o rest.kept]
          ELSE [ev |-> e1 \o <<Log(p, "Removed route")>> \o rest.ev, kept |-> rest.kept]

RECURSIVE NATGatewayResource__clean_table_loop(_, _, _)
NATGatewayResource__clean_table_loop(tables, c, inp) ==
    IF tables = <<>> THEN [ev |-> <<>>, kept |-> <<>>]
    ELSE
      LET here == NATGatewayResource__clean_route_loop(Head(tables).routes, c, inp)
          rest == NATGatewayResource__clean_table_loop(Tail(tables), c, inp)
      IN  [ev |-> here.ev \o rest.ev,
           kept |-> <<[Head(tables) EXCEPT !.routes = here.kept]>> \o rest.kept]

NATGatewayResource__clean_route_table_references(r, c, inp) ==
    LET Body(loop) ==
            LET p == Prefix(c)
                q == DescribeFiltered("clean.route_tables", inp)
                e == <<Call("describe_route_tables")>>
            IN  IF q # "ok" THEN Ret("None", e \o <<Log(p, "Error cleaning route tables")>>, r)
                ELSE Ret("None", e \o loop.ev, [r EXCEPT !.routeTables = loop.kept])
    IN  Body(NATGatewayResource__clean_table_loop(r.routeTables, c, inp))

NATGatewayResource_clean(r, c, inp) ==
    LET Body(a) ==
                Ret("None", <<Log(Prefix(c), "Cleaning dependencies")>> \o a.ev, a.r)
    IN  Body(NATGatewayResource__clean_route_table_references(r, c, inp))

VPCEndpointResource_clean(r, c, inp) ==
    Ret("None", <<Log(Prefix(c), "Cleaning dependencies"),
                  Log(Prefix(c), "no dependencies to clean")>>, r)

---------------------------------------------------------------------------
(* resources/s3/Bucket.py.                                                 *)

Bucket_clean(r, c, inp) ==
    LET p == Prefix(c)
        e0 == <<Log(p, "Start clean"), Log(p, "Trying to delete old versions"),
                Call("object_versions.delete")>>
        e1 == e0 \o <<Log(p, "Old file versions deleted"),
                      Log(p, "Start delete of all objects"), Call("objects.delete")>>
    IN  IF c.present /\ c.dry_run THEN Ret("None", <<Log(p, "Would clean bucket")>>, r)
        ELSE IF ~r.present \/ inp.auxErr # "ok" THEN Ret("None", e0, r)
        ELSE IF inp.mutErr = "Other" THEN Raise("ClientError", e1, r)
        ELSE Ret("None", e1 \o <<Log(p, "Delete of all objects completed")>>, r)

Bucket_remove(r, c, inp) ==
    LET Body(g, cl) ==
            LET p == Prefix(c)
                e0 == <<Log(p, "Trying to delete resource")>>
                e1 == e0 \o g.ev
                e2 == e1 \o cl.ev
                e3 == e2 \o <<Log(p, "Trying to delete website configuration"),
                              Call("bucket_website.delete")>> \o
                      (IF r.present /\ inp.auxErr = "ok"
                       THEN <<Log(p, "Website configuration deleted")>> ELSE <<>>) \o
                      <<Call("bucket.delete")>>
                d == DeleteOutcome(r, inp)
            IN  IF g.raised THEN Raise(g.ret, e1, r)
                ELSE IF ~g.ret THEN Ret("None", e1 \o <<Log("", "Delete skipped")>>, r)
                ELSE IF c.present /\ c.dry_run THEN Ret("None", e1 \o <<Log(p, "Would delete")>>, r)
                ELSE IF cl.raised THEN Ret("None", e2 \o <<Log("", "Cannot delete resource")>>, cl.r)
                ELSE IF d = "ok" THEN Ret("None", e3 \o <<Log(p, "Resource deleted")>>, Gone(r))
                ELSE Ret("None",
                         e3 \o (IF d = "NotFound" THEN <<Log("", "Bucket not found")>> ELSE <<>>)
                            \o <<Log("", "Cannot delete resource")>>, r)
    IN  Body(_should_proceed(r, c, inp), Bucket_clean(r, c, inp))

---------------------------------------------------------------------------
(* resources/dynamodb/Table.py, resources/cloudfront/Distribution.py,      *)
(* resources/iam/Group.py.                                                 *)

\* Table.remove(self): no context parameter, no gate
Table_remove(r, inp) ==
    LET e0 == <<Log("", "Trying to delete resource"), Call("delete_table")>>
        d == DeleteOutcome(r, inp)
    IN  IF d = "ok" THEN Ret("None", e0 \o <<Log("", "Resource deleted")>>, Gone(r))
        ELSE Ret("None", e0 \o <<Log("", "Cannot delete resource")>>, r)

\* Distribution.clean: disables the distribution and returns its ETag (or None);
\* the waiter raises WaiterError, which is not a ClientError
Distribution_clean(r, c, inp) ==
    LET p == Prefix(c)
        q == DescribeById(r, "get_distribution_config", inp)
        e0 == <<Call("get_distribution_config")>>
        e1 == e0 \o <<Call("update_distribution")>>
        off == [r EXCEPT !.enabled = FALSE]
    IN  IF q # "ok" THEN Ret("None", e0 \o <<Ev("print", "Error", "")>>, r)
        ELSE IF ~r.enabled THEN Ret("etag", e0, r)
        ELSE IF inp.auxErr # "ok" THEN Ret("etag", e1 \o <<Ev("print", "Error", "")>>, r)
        ELSE IF inp.progress = "never" THEN Raise("WaiterError", e1, off)
        ELSE Ret("etag", e1 \o <<Log(p, "Successfully disabled distribution")>>, off)

\* Distribution.remove: `etag = self.clean()` without the context; delete_distribution
\* sits outside any try, and `response` is unbound when there is no etag
Distribution_remove(r, c, inp) ==
    LET Body(cl) ==
            LET p == Prefix(c)
                e0 == <<Log(p, "Trying to delete resource")>> \o cl.ev
                e1 == e0 \o <<Call("delete_distribution")>>
                d == DeleteOutcome(cl.r, inp)
            IN  IF cl.raised THEN Raise(cl.ret, e0, cl.r)
                ELSE IF cl.ret = "None"
                THEN Raise("UnboundLocalError",
                           e0 \o <<Log(p, "Cannot disable and delete distribution"),
                                   Log(p, "Resource deleted")>>, cl.r)
                ELSE IF d # "ok" THEN Raise("ClientError", e1, cl.r)
                ELSE Ret("None", e1 \o <<Log(p, "Resource deleted")>>, Gone(cl.r))
    IN  Body(Distribution_clean(r, NoContext, inp))

\* Group.remove: group.load() sits before the try
Group_remove(r, c, inp) ==
    LET Body(g) ==
            LET p == Prefix(c)
                e0 == <<Log(p, "Trying to delete resource")>> \o g.ev
                q == DescribeById(r, "group.load", inp)
                e1 == e0 \o <<Call("group.load")>>
                e2 == e1 \o <<Call("group.users.all")>> \o
                      [k \in 1..(IF inp.auxErr = "ok" THEN r.users ELSE 1) |->
                          Call("group.remove_user")]
                e3 == e2 \o <<Call("group.delete")>>
                failed == <<Log("", "Cannot delete resource")>>
            IN  IF g.raised THEN Raise(g.ret, e0, r)
                ELSE IF ~g.ret THEN Ret("None", e0 \o <<Log("", "Delete skipped")>>, r)
                ELSE IF c.present /\ c.dry_run THEN Ret("None", e0 \o <<Log(p, "Would delete")>>, r)
                ELSE IF q # "ok" THEN Raise("ClientError", e1, r)
                ELSE IF r.users > 0 /\ inp.auxErr # "ok" THEN Ret("None", e2 \o failed, r)
                ELSE IF inp.mutErr # "ok"
                THEN Ret("None", e3 \o failed, [r EXCEPT !.users = 0])
                ELSE Ret("None", e3 \o <<Log(p, "Resource deleted")>>, Gone(r))
    IN  Body(_should_proceed(r, c, inp))

---------------------------------------------------------------------------
(* Dispatch of remove / clean on the class of the object.                  *)

remove(r, c, inp) ==
    CASE r.type = "bucket" -> Bucket_remove(r, c, inp)
      [] r.type = "distribution" -> Distribution_remove(r, c, inp)
      [] r.type = "group" -> Group_remove(r, c, inp)
      [] OTHER -> VPC_remove(r, c, inp)

clean(r, c, inp) ==
    CASE r.type = "subnet" -> SubnetResource_clean(r, c, inp)
      [] r.type = "security-group" -> SecurityGroupResource_clean(r, c, inp)
      [] r.type = "network-interface" -> NetworkInterfaceResource_clean(r, c, inp)
      [] r.type = "nat-gateway" -> NATGatewayResource_clean(r, c, inp)
      [] r.type = "vpc-endpoint" -> VPCEndpointResource_clean(r, c, inp)
      [] r.type = "bucket" -> Bucket_clean(r, c, inp)

---------------------------------------------------------------------------
(* command/base.py: the single and the batch removal path.                 *)

\* `resource.remove(context=self.context)` binds only when remove declares the
\* context parameter; Table.remove(self) does not and the call raises TypeError
accepts_context(type) == type # "table"

call_remove(r, c, inp) ==
    IF accepts_context(r.type) THEN remove(r, c, inp) ELSE Raise("TypeError", <<>>, r)

BaseCommand__execute_removal_swallow(r, c, inp) ==
    LET Body(m) ==
            LET e == <<Log(Prefix(c), "Processing resource")>> \o m.ev
            IN  IF m.raised THEN Ret("None", e \o <<Log("", "Failed to remove resource")>>, m.r)
                ELSE Ret("None", e, m.r)
    IN  Body(call_remove(r, c, inp))

BaseCommand__execute_removal(r, c, inp) ==
    LET Body(m) ==
            LET e == <<Log(Prefix(c), "Processing resource")>> \o m.ev
            IN  IF m.raised THEN Raise(m.ret, e \o <<Log("", "Failed to remove resource")>>, m.r)
                ELSE Ret("None", e, m.r)
    IN  Body(call_remove(r, c, inp))

\* the `for resource in resources` loop; plan[i] holds the provider's answers
\* for the i-th resource.  after = the resources with the provider facts afterwards
RECURSIVE BaseCommand__batch_loop_abort(_, _, _, _)
BaseCommand__batch_loop_abort(rs, c, plan, i) ==
    IF i > Len(rs)
    THEN [ev |-> <<>>, success |-> 0, failure |-> 0, after |-> <<>>, raised |-> FALSE]
    ELSE
      LET Body(m, rest) ==
            LET e == <<Log(Prefix(c), "Processing resource"), Ev("remove", rs[i].id, "")>>
                     \o m.ev
            IN  IF m.raised
                THEN [ev |-> e \o <<Log("", "Failed to remove resource")>>,
                      success |-> 0, failure |-> 1,
                      after |-> <<m.r>> \o SubSeq(rs, i + 1, Len(rs)), raised |-> TRUE]
                ELSE [ev |-> e \o rest.ev,
                      success |-> 1 + rest.success, failure |-> rest.failure,
                      after |-> <<m.r>> \o rest.after, raised |-> rest.raised]
      IN  Body(call_remove(rs[i], c, plan[i]),
               BaseCommand__batch_loop_abort(rs, c, plan, i + 1))

RECURSIVE BaseCommand__batch_loop(_, _, _, _)
BaseCommand__batch_loop(rs, c, plan, i) ==
    IF i > Len(rs)
    THEN [ev |-> <<>>, success |-> 0, failure |-> 0, after |-> <<>>, raised |-> FALSE]
    ELSE
      LET Body(m, rest) ==
            LET e == <<Log(Prefix(c), "Processing resource"), Ev("remove", rs[i].id, "")>>
                     \o m.ev
            IN  IF m.raised
                THEN [ev |-> e \o <<Log("", "Failed to remove resource")>> \o rest.ev,
                      success |-> rest.success, failure |-> 1 + rest.failure,
                      after |-> <<m.r>> \o rest.after, raised |-> rest.raised]
                ELSE [ev |-> e \o rest.ev,
                      success |-> 1 + rest.success, failure |-> rest.failure,
                      after |-> <<m.r>> \o rest.after, raised |-> rest.raised]
      IN  Body(call_remove(rs[i], c, plan[i]), BaseCommand__batch_loop(rs, c, plan, i + 1))

BaseCommand__execute_batch_removal_no_empty_check(rs, c, plan) ==
    LET Body(loop) ==
                [ev |-> loop.ev \o <<Log(Prefix(c), "Batch operation complete")>>,
                 success |-> loop.success, failure |-> loop.failure,
                 after |-> loop.after, raised |-> FALSE, summary |-> TRUE]
    IN  Body(BaseCommand__batch_loop(rs, c, plan, 1))

\* the summary is the last event; its counts are the counters at that point
BaseCommand__execute_batch_removal(rs, c, plan) ==
    LET Body(loop) ==
                IF rs = <<>>
                THEN [ev |-> <<Log("", "No resources to process")>>, success |-> 0, failure |-> 0,
                      after |-> rs, raised |-> FALSE, summary |-> FALSE]
                ELSE IF loop.raised
                THEN [ev |-> loop.ev, success |-> loop.success, failure |-> loop.failure,
                      after |-> loop.after, raised |-> TRUE, summary |-> FALSE]
                ELSE [ev |-> loop.ev \o <<Log(Prefix(c), "Batch operation complete")>>,
                      success |-> loop.success, failure |-> loop.failure,
                      after |-> loop.after, raised |-> FALSE, summary |-> TRUE]
    IN  Body(BaseCommand__batch_loop(rs, c, plan, 1))

---------------------------------------------------------------------------
(* utils/context.py, utils/callback.py, command/s3.py: the CLI process.    *)

\* str.lower() on the values the environment is drawn from
lower(v) ==
    CASE v \in {"true", "TRUE", "True"} -> "true"
      [] v = "false" -> "false"
      [] OTHER -> v

\* os.getenv(name, 'false').lower() == 'true'
getenv_is_true(env, name) == lower(IF env[name] = "unset" THEN "false" ELSE env[name]) = "true"

from_environment(env) ==
    ExecutionContext(getenv_is_true(env, "DRY_RUN"), getenv_is_true(env, "AUTO_APPROVE"))

\* BaseCommand.setup_context(): explicit parameters first, then the environment
setup_context(env, dry_run, auto_approve) ==
    ExecutionContext(dry_run \/ getenv_is_true(env, "DRY_RUN"),
                     auto_approve \/ getenv_is_true(env, "AUTO_APPROVE"))

\* callback_base: the flags are stored in the environment and in the context
\* object of the module; nothing is handed to the command that follows
callback_base(env, cx, skip_account_check, dry_run, auto_approve) ==
    LET e1 == IF skip_account_check THEN [env EXCEPT !["SKIP_ACCOUNT_CHECK"] = "True"] ELSE env
        e2 == IF dry_run THEN [e1 EXCEPT !["DRY_RUN"] = "true"] ELSE e1
        e3 == IF auto_approve THEN [e2 EXCEPT !["AUTO_APPROVE"] = "true"] ELSE e2
        c1 == IF dry_run THEN [cx EXCEPT !.dry_run = TRUE] ELSE cx
        c2 == IF auto_approve THEN [c1 EXCEPT !.auto_approve = TRUE] ELSE c1
    IN  [environ |-> e3, context |-> c2]

\* confirm_account: TRUE when the process goes on, FALSE when it exits
confirm_account(env, answer) ==
    IF getenv_is_true(env, "SKIP_ACCOUNT_CHECK") THEN TRUE ELSE answer

\* `for s in buckets: s.remove()` / `s.clean()`: no context is passed, and an
\* exception of one bucket ends the command
RECURSIVE s3_loop(_, _, _, _)
s3_loop(opname, buckets, plan, i) ==
    IF i > Len(buckets) THEN [ev |-> <<>>, after |-> <<>>, raised |-> "none"]
    ELSE
      LET Body(m, rest) ==
            IF m.raised
            THEN [ev |-> m.ev, after |-> <<m.r>> \o SubSeq(buckets, i + 1, Len(buckets)),
                  raised |-> m.ret]
            ELSE [ev |-> m.ev \o rest.ev, after |-> <<m.r>> \o rest.after,
                  raised |-> rest.raised]
      IN  Body(IF opname = "remove" THEN Bucket_remove(buckets[i], NoContext, plan[i])
               ELSE Bucket_clean(buckets[i], NoContext, plan[i]),
               s3_loop(opname, buckets, plan, i + 1))

\* the method each s3 command calls on the buckets it found
s3_method(command) ==
    CASE command = "remove-bucket-by-name" -> "remove"
      [] command = "remove-bucket-by-file-list" -> "remove"
      [] command = "remove-bucket-by-tags" -> "remove"
      [] command = "clean-bucket-by-name" -> "remove"
      [] command = "clean-bucket-by-tags" -> "clean"
      [] command = "clean-bucket-by-file-list" -> "clean"

---------------------------------------------------------------------------
(* The states the provider and the caller can present.                     *)

SeqsUpTo(S, n) == UNION {[1..k -> S] : k \in 0..n}

\* a dependency that exists, one the provider no longer knows (itself depending
\* on a resource that exists), one that failed
DepPool ==
    {Resource("subnet-dep", "subnet"),
     [Resource("sg-dep", "security-group") EXCEPT
         !.present = FALSE, !.deps = <<Resource("subnet-far", "subnet")>>],
     [Resource("nat-dep", "nat-gateway") EXCEPT !.state = "failed"]}

DepLists == SeqsUpTo(DepPool, MaxDeps)

EniKinds ==
    {[itype |-> "interface", status |-> "available", attached |-> "none"],
     [itype |-> "interface", status |-> "in-use", attached |-> "instance"],
     [itype |-> "interface", status |-> "in-use", attached |-> "service"],
     [itype |-> "nat_gateway", status |-> "in-use", attached |-> "service"],
     [itype |-> "efs", status |-> "in-use", attached |-> "service"]}

SubnetRouteTables == {[main |-> m, routes |-> <<>>] : m \in BOOLEAN}

SubnetFacts ==
    {[enis |-> e, instances |-> 0, routeTables |-> <<>>] : e \in SeqsUpTo(EniKinds, MaxItems)}
    \cup {[enis |-> <<>>, instances |-> n, routeTables |-> t] :
             n \in 0..1, t \in SeqsUpTo(SubnetRouteTables, MaxItems)}

Subnet(d, ds, f) ==
    [Resource("subnet-1", "subnet") EXCEPT !.isDefault = d, !.deps = ds, !.enis = f.enis,
                                           !.instances = f.instances,
                                           !.routeTables = f.routeTables]

\* every usage without dependencies; the dependency lists with an idle and a busy resource
Subnets ==
    {Subnet(d, <<>>, f) : d \in BOOLEAN, f \in SubnetFacts}
    \cup {Subnet(d, ds, f) : d \in BOOLEAN, ds \in DepLists,
                             f \in {g \in SubnetFacts : g.enis = <<>> /\ g.routeTables = <<>>}}

GroupKinds ==
    {[self |-> TRUE, inRef |-> FALSE, outRef |-> FALSE],
     [self |-> FALSE, inRef |-> FALSE, outRef |-> FALSE],
     [self |-> FALSE, inRef |-> TRUE, outRef |-> FALSE],
     [self |-> FALSE, inRef |-> FALSE, outRef |-> TRUE]}

EgressRules ==
    {[IpProtocol |-> "-1", IpRanges |-> <<"0.0.0.0/0">>, others |-> FALSE],
     [IpProtocol |-> "-1", IpRanges |-> <<"0.0.0.0/0">>, others |-> TRUE],
     [IpProtocol |-> "tcp", IpRanges |-> <<"10.0.0.0/8">>, others |-> FALSE]}

GroupEnis ==
    SeqsUpTo({[itype |-> "interface", status |-> "in-use", attached |-> "instance"]}, MaxItems)

SecurityGroupFacts ==
    {[enis |-> e, instances |-> n, groups |-> <<>>, inbound |-> 0, outbound |-> <<>>] :
        e \in GroupEnis, n \in 0..1}
    \cup {[enis |-> <<>>, instances |-> 0, groups |-> g, inbound |-> 0, outbound |-> <<>>] :
             g \in SeqsUpTo(GroupKinds, MaxItems)}
    \cup {[enis |-> <<>>, instances |-> 0, groups |-> <<>>, inbound |-> i, outbound |-> o] :
             i \in 0..MaxItems, o \in SeqsUpTo(EgressRules, MaxItems)}

SecurityGroup(d, ds, f) ==
    [Resource("sg-1", "security-group") EXCEPT !.isDefault = d, !.deps = ds,
                                               !.enis = f.enis, !.instances = f.instances,
                                               !.groups = f.groups, !.inbound = f.inbound,
                                               !.outbound = f.outbound]

SecurityGroups ==
    {SecurityGroup(d, <<>>, f) : d \in BOOLEAN, f \in SecurityGroupFacts}
    \cup {SecurityGroup(d, ds, f) :
             d \in BOOLEAN, ds \in DepLists,
             f \in {g \in SecurityGroupFacts :
                      g.enis = <<>> /\ g.groups = <<>> /\ g.inbound = 0 /\ g.outbound = <<>>}}

Attachments ==
    {NoAttachment}
    \cup {[has |-> TRUE, instance |-> TRUE, attachmentId |-> TRUE, deviceIndex |-> i,
           status |-> "attached"] : i \in 0..1}
    \cup {[has |-> TRUE, instance |-> FALSE, attachmentId |-> a, deviceIndex |-> 1,
           status |-> "attached"] : a \in BOOLEAN}

\* State.Name of the instance an interface is attached to
InstanceStates == {"pending", "running", "stopping", "stopped"}

NetworkInterfaceFacts ==
    {f \in [attachment : Attachments, instanceState : InstanceStates, eips : 0..MaxItems] :
        f.instanceState \in {"pending", "stopping"}
            => (f.attachment.instance /\ f.attachment.deviceIndex = 1 /\ f.eips = 0)}

NetworkInterface(t, ds, f) ==
    [Resource("eni-1", "network-interface") EXCEPT !.interface_type = t, !.deps = ds,
                                                   !.attachment = f.attachment,
                                                   !.instanceState = f.instanceState,
                                                   !.eips = f.eips]

NetworkInterfaces ==
    {NetworkInterface(t, <<>>, f) :
        t \in {"interface", "nat_gateway"},
        f \in {g \in NetworkInterfaceFacts : g.attachment.instance \/ g.instanceState = "running"}}
    \cup {NetworkInterface(t, ds, f) :
             t \in {"interface", "nat_gateway"}, ds \in DepLists,
             f \in {g \in NetworkInterfaceFacts :
                      /\ g.attachment \in {NoAttachment} \cup {a \in Attachments : a.deviceIndex = 0}
                      /\ g.instanceState = "running" /\ g.eips = 0}}

NatRoutes ==
    {[nat |-> TRUE, dest |-> "ipv4"], [nat |-> TRUE, dest |-> "ipv6"],
     [nat |-> TRUE, dest |-> "none"], [nat |-> FALSE, dest |-> "ipv4"]}

NatRouteTables ==
    SeqsUpTo({[main |-> FALSE, routes |-> rs] : rs \in SeqsUpTo(NatRoutes, MaxItems)}, 1)

GatewayStates == {"pending", "available", "deleting", "deleted", "failed"}

NATGateway(st, ds, t) ==
    [Resource("nat-1", "nat-gateway") EXCEPT !.state = st, !.deps = ds, !.routeTables = t]

NATGateways ==
    {NATGateway(st, <<>>, t) : st \in GatewayStates, t \in NatRouteTables}
    \cup {NATGateway(st, ds, <<>>) : st \in GatewayStates, ds \in DepLists}

VPCEndpoint(st, ds, u) ==
    [Resource("vpce-1", "vpc-endpoint") EXCEPT !.state = st, !.deps = ds, !.unsuccessful = u]

VPCEndpoints ==
    {VPCEndpoint(st, ds, u) : st \in GatewayStates, ds \in DepLists, u \in BOOLEAN}

Present == Subnets \cup SecurityGroups \cup NetworkInterfaces \cup NATGateways \cup VPCEndpoints

\* a resource object whose id the provider no longer knows
Absent == {Gone(r) : r \in Present}

Scenarios == Present \cup Absent

\* the call sites of remove() / clean() of a class that a fault can hit
SitesOf(opname, type) ==
    CASE opname = "remove" /\ type = "subnet" ->
           {"none", "is_default_resource", "exists", "can_delete.interfaces",
            "can_delete.instances"}
      [] opname = "remove" /\ type = "security-group" ->
           {"none", "is_default_resource", "exists", "can_delete.references",
            "can_delete.instances", "can_delete.interfaces"}
      [] opname = "remove" /\ type = "network-interface" ->
           {"none", "exists", "can_delete.state", "can_delete.instances",
            "detach.describe", "wait.describe"}
      [] opname = "remove" /\ type = "nat-gateway" ->
           {"none", "exists", "can_delete.state", "can_delete.route_tables"}
      [] opname = "remove" /\ type = "vpc-endpoint" -> {"none", "exists", "can_delete.state"}
      [] opname = "clean" /\ type = "subnet" -> {"none", "clean.list", "clean.route_tables"}
      [] opname = "clean" /\ type = "security-group" -> {"none", "clean.list"}
      [] opname = "clean" /\ type = "network-interface" ->
           {"none", "clean.list", "detach.describe", "wait.describe"}
      [] opname = "clean" /\ type = "nat-gateway" -> {"none", "clean.route_tables"}
      [] opname = "remove" /\ type = "group" -> {"none", "group.load"}
      [] opname = "remove" /\ type = "distribution" -> {"none", "get_distribution_config"}
      [] OTHER -> {"none"}

\* the provider's answers an operation on r is run against: one call site
\* failing, or the mutating calls failing, or the user's answer varying
InputsFor(opname, r) ==
    {i \in Inputs :
        /\ i.fault \in SitesOf(opname, r.type)
        /\ (i.fault = "exists") => r.deps # <<>>
        /\ (i.fault # "none") => (i.mutErr = "ok" /\ i.auxErr = "ok")
        /\ ~i.choice => (i.fault = "none" /\ i.mutErr = "ok" /\ i.auxErr = "ok")
        /\ (r.present \/ r.type \notin {"nat-gateway", "vpc-endpoint"}) => i.absentAs = "error"
        /\ (r.type = "network-interface" => ~r.attachment.has) /\ r.type # "distribution"
              => i.progress = "at-once"}

---------------------------------------------------------------------------
(* remove() and clean() of one resource, called directly.                  *)

\* no resource object linked yet, no client handle created yet
NoGraph == dependencies = [n \in {} |-> <<>>] /\ dependents = [n \in {} |-> <<>>]
NoWait == start_time = 0 /\ clock = 0

\* no VPCResourceCollection has been built
NoCollection == collection = "none"

NoCache ==
    /\ clients = [k \in {} |-> 0]
    /\ aws_resources = [k \in {} |-> 0]
    /\ created = <<>>

DefaultEnviron ==
    [DRY_RUN |-> "unset", AUTO_APPROVE |-> "unset", SKIP_ACCOUNT_CHECK |-> "unset"]

Init ==
    /\ ctx \in Contexts
    /\ res \in Scenarios
    /\ op = "init"
    /\ trace = <<>>
    /\ raised = "none"
    /\ resources = <<>>
    /\ success_count = 0
    /\ failure_count = 0
    /\ answers = <<>>
    /\ environ = DefaultEnviron
    /\ context = from_environment(DefaultEnviron)
    /\ cliDryRun = FALSE
    /\ returned = "none"
    /\ NoGraph
    /\ NoCache
    /\ NoWait
    /\ NoCollection

Finish(name, m) ==
    /\ op' = name
    /\ res' = m.r
    /\ trace' = m.ev
    /\ raised' = IF m.raised THEN m.ret ELSE "none"

Remove ==
    /\ \E inp \in InputsFor("remove", res) : Finish("remove", remove(res, ctx, inp))
    /\ UNCHANGED <<ctx, resources, success_count, failure_count, answers, environ, context,
                   cliDryRun>>
    /\ UNCHANGED <<returned, graphVars, cacheVars, waitVars, collection>>

Clean ==
    /\ \E inp \in InputsFor("clean", res) : Finish("clean", clean(res, ctx, inp))
    /\ UNCHANGED <<ctx, resources, success_count, failure_count, answers, environ, context,
                   cliDryRun>>
    /\ UNCHANGED <<returned, graphVars, cacheVars, waitVars, collection>>

Next == Remove \/ Clean

Spec == Init /\ [][Next]_vars

---------------------------------------------------------------------------
(* The queries of a VPC-scoped resource, called directly: exists(),        *)
(* is_default_resource(), can_delete(), and clean() between two checks.    *)

\* the provider's answers to a query: one call site failing, or none
QueryInputs(r) ==
    {i \in Inputs :
        /\ i.fault \in SitesOf("remove", r.type) \cup {"exists", "is_default_resource"}
        /\ i.mutErr = "ok" /\ i.auxErr = "ok" /\ i.choice /\ i.progress = "at-once"
        /\ (r.present \/ r.type \notin {"nat-gateway", "vpc-endpoint"}) => i.absentAs = "error"}

InitQuery ==
    /\ ctx = NoContext
    /\ res \in Scenarios
    /\ op = "init"
    /\ trace = <<>>
    /\ raised = "none"
    /\ resources = <<>>
    /\ success_count = 0
    /\ failure_count = 0
    /\ answers = <<>>
    /\ environ = DefaultEnviron
    /\ context = from_environment(DefaultEnviron)
    /\ cliDryRun = FALSE
    /\ returned = "none"
    /\ NoGraph
    /\ NoCache
    /\ NoWait
    /\ NoCollection

\* the end of a query: the resource is left as it was
Answer(name, inp, m) ==
    /\ op' = name
    /\ returned' = m.ret
    /\ raised' = IF m.raised THEN m.ret ELSE "none"
    /\ trace' = trace \o m.ev
    /\ answers' = <<inp>>
    /\ UNCHANGED <<ctx, res, resources, success_count, failure_count, environ, context,
                   cliDryRun, graphVars, cacheVars, waitVars, collection>>

Exists ==
    /\ op = "init"
    /\ \E inp \in QueryInputs(res) : Answer("exists", inp, exists(res, inp))

IsDefaultResource ==
    /\ op = "init"
    /\ \E inp \in QueryInputs(res) :
          Answer("is_default_resource", inp, is_default_resource(res, inp))

CanDelete ==
    /\ op \in {"init", "clean"}
    /\ \E inp \in QueryInputs(res) :
          LET Done(m) == Answer("can_delete", inp, m)
          IN  Done(can_delete(res, inp))

\* clean() of a resource whose can_delete() answered False, once
CleanBlocked ==
    /\ op = "can_delete" /\ returned = FALSE
    /\ ~HasLog(trace, "Cleaning dependencies")
    /\ \E inp \in InputsFor("clean", res) :
          LET Done(m) ==
                /\ op' = "clean"
                /\ res' = m.r
                /\ trace' = trace \o m.ev
                /\ raised' = IF m.raised THEN m.ret ELSE "none"
                /\ returned' = m.ret
                /\ answers' = <<inp>>
          IN  Done(clean(res, ctx, inp))
    /\ UNCHANGED <<ctx, resources, success_count, failure_count, environ, context,
                   cliDryRun, graphVars, cacheVars, waitVars, collection>>

NextQuery == Exists \/ IsDefaultResource \/ CanDelete \/ CleanBlocked

SpecQuery == InitQuery /\ [][NextQuery]_vars

---------------------------------------------------------------------------
(* VPCResource.add_dependency / get_dependencies on a set of objects.      *)

\* `x in list`: the objects define no __eq__, membership is by identity
In(x, list) == \E i \in 1..Len(list) : list[i] = x

add_dependency_one_sided(deps, dents, self, dependency) ==
    IF ~In(dependency, deps[self])
    THEN [dependencies |-> [deps EXCEPT ![self] = Append(@, dependency)],
          dependents |-> dents]
    ELSE [dependencies |-> deps, dependents |-> dents]

\* self.add_dependency(dependency)
add_dependency(deps, dents, self, dependency) ==
    IF ~In(dependency, deps[self])
    THEN [dependencies |-> [deps EXCEPT ![self] = Append(@, dependency)],
          dependents |-> IF ~In(self, dents[dependency])
                         THEN [dents EXCEPT ![dependency] = Append(@, self)]
                         ELSE dents]
    ELSE [dependencies |-> deps, dependents |-> dents]

\* self.get_dependencies(): a copy of the list
get_dependencies(deps, self) == deps[self]

\* the resource objects of one VPC
Objects == {"subnet-1", "sg-1", "eni-1"}

Edges(deps) == {<<a, b>> \in Objects \X Objects : In(b, deps[a])}

InitGraph ==
    /\ dependencies = [n \in Objects |-> <<>>]
    /\ dependents = [n \in Objects |-> <<>>]
    /\ ctx = NoContext
    /\ res = Resource("none", "none")
    /\ op = "init"
    /\ trace = <<>>
    /\ raised = "none"
    /\ resources = <<>>
    /\ success_count = 0
    /\ failure_count = 0
    /\ answers = <<>>
    /\ environ = DefaultEnviron
    /\ context = from_environment(DefaultEnviron)
    /\ cliDryRun = FALSE
    /\ returned = "none"
    /\ NoCache
    /\ NoWait
    /\ NoCollection

\* a.add_dependency(b) for any two objects, b = a included
AddDependency ==
    /\ \E a \in Objects, b \in Objects :
          /\ In(b, dependencies[a]) \/ Cardinality(Edges(dependencies)) < MaxEdges
          /\ LET g == add_dependency(dependencies, dependents, a, b)
             IN  /\ dependencies' = g.dependencies
                 /\ dependents' = g.dependents
    /\ op' = "add_dependency"
    /\ returned' = "None"
    /\ UNCHANGED <<ctx, res, trace, raised, resources, success_count, failure_count, answers,
                   environ, context, cliDryRun, cacheVars, waitVars, collection>>

GetDependencies ==
    /\ \E a \in Objects : returned' = get_dependencies(dependencies, a)
    /\ op' = "get_dependencies"
    /\ UNCHANGED <<ctx, res, trace, raised, resources, success_count, failure_count, answers,
                   environ, context, cliDryRun, graphVars, cacheVars, waitVars, collection>>

NextGraph == AddDependency \/ GetDependencies

SpecGraph == InitGraph /\ [][NextGraph]_vars

---------------------------------------------------------------------------
(* utils/aws.py: get_client and get_resource with their module-level dicts. *)

\* os.getenv(name, default)
getenv(env, name, default) == IF env[name] = "unset" THEN default ELSE env[name]

\* `d[key] = value` on a dict
Store(d, key, value) == [k \in DOMAIN d \cup {key} |-> IF k = key THEN value ELSE d[k]]

\* boto3.client(...) / boto3.resource(...): a new handle, numbered by creation
NewHandle(made) == Len(made) + 1

\* get_client: the membership test is on service_name, the dict is keyed by key
get_client(cache, made, env, service_name, region) ==
    LET reg == IF region = "None" THEN getenv(env, "AWS_REGION", "eu-west-1") ELSE region
        key == service_name \o "_" \o reg
        create == service_name \notin DOMAIN cache
        cache2 == IF create THEN Store(cache, key, NewHandle(made)) ELSE cache
    IN  [cache |-> cache2,
         created |-> IF create THEN Append(made, [kind |-> "client", key |-> key]) ELSE made,
         raised |-> key \notin DOMAIN cache2,
         ret |-> IF key \in DOMAIN cache2 THEN cache2[key] ELSE "KeyError"]

get_resource(cache, made, env, service_name, region) ==
    LET reg == IF region = "None" THEN getenv(env, "AWS_REGION", "eu-west-1") ELSE region
        key == service_name \o "_" \o reg
        create == key \notin DOMAIN cache
        cache2 == IF create THEN Store(cache, key, NewHandle(made)) ELSE cache
    IN  [cache |-> cache2,
         created |-> IF create THEN Append(made, [kind |-> "resource", key |-> key]) ELSE made,
         raised |-> FALSE,
         ret |-> cache2[key]]

Services == {"ec2", "s3"}
Regions == {"None", "eu-west-1", "us-east-1"}

InitCache ==
    /\ NoCache
    /\ NoWait
    /\ NoCollection
    /\ environ \in {DefaultEnviron @@ [AWS_REGION |-> v] :
                       v \in {"unset", "us-east-1"}}
    /\ context = NoContext
    /\ ctx = NoContext
    /\ res = Resource("none", "none")
    /\ op = "init"
    /\ trace = <<>>
    /\ raised = "none"
    /\ resources = <<>>
    /\ success_count = 0
    /\ failure_count = 0
    /\ answers = <<>>
    /\ cliDryRun = FALSE
    /\ returned = "none"
    /\ NoGraph

GetClient ==
    /\ Len(created) < MaxCalls
    /\ \E service_name \in Services, region \in Regions :
          LET m == get_client(clients, created, environ, service_name, region)
          IN  /\ clients' = m.cache
              /\ created' = m.created
              /\ returned' = m.ret
              /\ raised' = IF m.raised THEN m.ret ELSE "none"
              /\ answers' = <<[service_name |-> service_name, region |-> region]>>
    /\ op' = "get_client"
    /\ UNCHANGED <<ctx, res, trace, resources, success_count, failure_count, environ, context,
                   cliDryRun, aws_resources, graphVars, waitVars, collection>>

GetResource ==
    /\ Len(created) < MaxCalls
    /\ \E service_name \in Services, region \in Regions :
          LET m == get_resource(aws_resources, created, environ, service_name, region)
          IN  /\ aws_resources' = m.cache
              /\ created' = m.created
              /\ returned' = m.ret
              /\ raised' = "none"
              /\ answers' = <<[service_name |-> service_name, region |-> region]>>
    /\ op' = "get_resource"
    /\ UNCHANGED <<ctx, res, trace, resources, success_count, failure_count, environ, context,
                   cliDryRun, clients, graphVars, waitVars, collection>>

NextCache == GetClient \/ GetResource

SpecCache == InitCache /\ [][NextCache]_vars

---------------------------------------------------------------------------
(* BaseCommand: remove_by_id and remove_by_tags of a command object.       *)

\* the resources a factory can hand to the orchestrator
BatchPool ==
    {Resource("subnet-a", "subnet"),
     [Resource("subnet-b", "subnet") EXCEPT !.isDefault = TRUE],
     [Resource("sg-a", "security-group") EXCEPT !.present = FALSE],
     Resource("nat-a", "nat-gateway"),
     [Resource("vpce-a", "vpc-endpoint") EXCEPT !.state = "pending"],
     [Resource("eni-a", "network-interface") EXCEPT
         !.attachment = [has |-> TRUE, instance |-> TRUE, attachmentId |-> TRUE,
                         deviceIndex |-> 1, status |-> "attached"],
         !.instanceState = "stopped"],
     Resource("table-a", "table"),
     Resource("bucket-a", "bucket")}

BatchInputs ==
    {i \in Inputs : /\ i.fault = "none" /\ i.auxErr = "ok" /\ i.choice
                    /\ i.absentAs = "error" /\ i.progress = "at-once"
                    /\ i.mutErr \in {"ok", "DependencyViolation"}}

\* the answers to a removal of one resource: the delete call can fail with any code
SingleInputs ==
    {i \in Inputs : /\ i.fault = "none" /\ i.auxErr = "ok" /\ i.choice
                    /\ i.absentAs = "error" /\ i.progress = "at-once"}

InitBatch ==
    /\ ctx \in Contexts
    /\ resources \in SeqsUpTo(BatchPool, MaxBatch)
    /\ res \in BatchPool
    /\ op = "init"
    /\ trace = <<>>
    /\ raised = "none"
    /\ success_count = 0
    /\ failure_count = 0
    /\ answers = <<>>
    /\ environ = DefaultEnviron
    /\ context = from_environment(DefaultEnviron)
    /\ cliDryRun = FALSE
    /\ returned = "none"
    /\ NoGraph
    /\ NoCache
    /\ NoWait
    /\ NoCollection

\* remove_by_id / remove_by_name: the factory creates one resource, res
RemoveById ==
    /\ op = "init"
    /\ \E inp \in SingleInputs :
          LET Done(m) ==
                /\ op' = "remove_by_id"
                /\ res' = m.r
                /\ trace' = m.ev
                /\ raised' = IF m.raised THEN m.ret ELSE "none"
                /\ answers' = <<inp>>
          IN  Done(BaseCommand__execute_removal(res, ctx, inp))
    /\ UNCHANGED <<ctx, resources, success_count, failure_count, environ, context, cliDryRun>>
    /\ UNCHANGED <<returned, graphVars, cacheVars, waitVars, collection>>

\* remove_by_tags / remove_by_file_list: the factory creates a list
RemoveByTags ==
    /\ op = "init"
    /\ \E plan \in [1..Len(resources) -> BatchInputs] :
          LET Done(b) ==
                /\ op' = "remove_by_tags"
                /\ resources' = b.after
                /\ trace' = b.ev
                /\ raised' = IF b.raised THEN "Exception" ELSE "none"
                /\ success_count' = b.success
                /\ failure_count' = b.failure
                /\ answers' = plan
          IN  Done(BaseCommand__execute_batch_removal(resources, ctx, plan))
    /\ UNCHANGED <<ctx, res, environ, context, cliDryRun>>
    /\ UNCHANGED <<returned, graphVars, cacheVars, waitVars, collection>>

\* remove() called on an object of any class, as the commands of the services
\* do; a context is handed over where the method declares the parameter
direct_remove(r, c, inp) ==
    IF r.type = "table" THEN Table_remove(r, inp) ELSE remove(r, c, inp)

ResourcePool ==
    BatchPool
    \cup {[Resource("table-a", "table") EXCEPT !.present = pr] : pr \in BOOLEAN}
    \cup {[Resource("dist-a", "distribution") EXCEPT !.present = pr, !.enabled = en] :
             pr \in BOOLEAN, en \in BOOLEAN}
    \cup {[Resource("group-a", "group") EXCEPT !.present = pr, !.users = n] :
             pr \in BOOLEAN, n \in 0..MaxItems}
    \cup {[Resource("bucket-a", "bucket") EXCEPT !.present = FALSE]}

InitResources ==
    /\ ctx \in Contexts
    /\ res \in ResourcePool
    /\ resources = <<>>
    /\ op = "init"
    /\ trace = <<>>
    /\ raised = "none"
    /\ success_count = 0
    /\ failure_count = 0
    /\ answers = <<>>
    /\ environ = DefaultEnviron
    /\ context = from_environment(DefaultEnviron)
    /\ cliDryRun = FALSE
    /\ returned = "none"
    /\ NoGraph
    /\ NoCache
    /\ NoWait
    /\ NoCollection

RemoveResource ==
    /\ \E inp \in InputsFor("remove", res) :
          LET Done(m) ==
                /\ Finish("remove", m)
                /\ answers' = <<inp>>
          IN  Done(direct_remove(res, ctx, inp))
    /\ UNCHANGED <<ctx, resources, success_count, failure_count, environ, context, cliDryRun>>
    /\ UNCHANGED <<returned, graphVars, cacheVars, waitVars, collection>>

NextResources == RemoveResource

SpecResources == InitResources /\ [][NextResources]_vars

NextBatch == RemoveById \/ RemoveByTags

SpecBatch == InitBatch /\ [][NextBatch]_vars

---------------------------------------------------------------------------
(* The CLI process: the Typer callback, then one command.                  *)

EnvValues == {"unset", "true", "TRUE", "false"}

Buckets == {Resource("bucket-1", "bucket"), [Resource("bucket-1", "bucket") EXCEPT !.present = FALSE]}

BucketInputs ==
    {i \in Inputs : /\ i.fault = "none" /\ i.choice /\ i.absentAs = "error"
                    /\ i.progress = "at-once" /\ i.mutErr \in {"ok", "Other"}}

S3Commands ==
    {"remove-bucket-by-name", "remove-bucket-by-file-list", "remove-bucket-by-tags",
     "clean-bucket-by-name", "clean-bucket-by-tags", "clean-bucket-by-file-list"}

\* the module-level `context = ExecutionContext.get_context()` runs at import
InitCli ==
    /\ environ \in [{"DRY_RUN", "AUTO_APPROVE", "SKIP_ACCOUNT_CHECK"} -> EnvValues]
    /\ context = from_environment(environ)
    /\ cliDryRun = FALSE
    /\ resources \in SeqsUpTo(Buckets, MaxBatch)
    /\ ctx = NoContext
    /\ res = Resource("none", "none")
    /\ op = "start"
    /\ trace = <<>>
    /\ raised = "none"
    /\ success_count = 0
    /\ failure_count = 0
    /\ answers = <<>>
    /\ returned = "none"
    /\ NoGraph
    /\ NoCache
    /\ NoWait
    /\ NoCollection

\* callback_check_account: callback_base, then confirm_account
Callback ==
    /\ op = "start"
    /\ \E skip \in BOOLEAN, dry_run \in BOOLEAN, auto_approve \in BOOLEAN, answer \in BOOLEAN :
          LET cb == callback_base(environ, context, skip, dry_run, auto_approve)
          IN  /\ environ' = cb.environ
              /\ context' = cb.context
              /\ cliDryRun' = (dry_run \/ getenv_is_true(environ, "DRY_RUN"))
              /\ op' = IF confirm_account(cb.environ, answer) THEN "callback" ELSE "exit"
    /\ UNCHANGED <<ctx, res, trace, raised, resources, success_count, failure_count, answers>>
    /\ UNCHANGED <<returned, graphVars, cacheVars, waitVars, collection>>

\* a command of `s3_command`; the by-name commands create exactly one bucket
S3Command ==
    /\ op = "callback"
    /\ \E command \in S3Commands, plan \in [1..Len(resources) -> BucketInputs] :
          /\ command \in {"remove-bucket-by-name", "clean-bucket-by-name"}
                => Len(resources) = 1
          /\ LET Done(m) ==
                   /\ op' = command
                   /\ resources' = m.after
                   /\ trace' = m.ev
                   /\ raised' = m.raised
                   /\ answers' = plan
             IN  Done(s3_loop(s3_method(command), resources, plan, 1))
    /\ UNCHANGED <<ctx, res, success_count, failure_count, environ, context, cliDryRun>>
    /\ UNCHANGED <<returned, graphVars, cacheVars, waitVars, collection>>

\* a command of `vpc_command`: cmd.setup_context(), then a method that only logs
VpcCommand ==
    /\ op = "callback"
    /\ op' = "vpc-cleanup"
    /\ ctx' = setup_context(environ, FALSE, FALSE)
    /\ UNCHANGED <<res, trace, raised, resources, success_count, failure_count, answers,
                   environ, context, cliDryRun>>
    /\ UNCHANGED <<returned, graphVars, cacheVars, waitVars, collection>>

NextCli == Callback \/ S3Command \/ VpcCommand

SpecCli == InitCli /\ [][NextCli]_vars

---------------------------------------------------------------------------
(* Seeding of the ExecutionContext: region and profile next to the flags.  *)

\* os.getenv(name): None when the variable is not set
os_getenv(env, name) == IF env[name] = "unset" THEN "None" ELSE env[name]

\* ExecutionContext(dry_run, auto_approve, region, profile)
SeededContext(dry_run, auto_approve, region, profile) ==
    [present |-> TRUE, dry_run |-> dry_run, auto_approve |-> auto_approve,
     region |-> region, profile |-> profile]

\* ExecutionContext.from_environment, all four fields
ExecutionContext_from_environment(env) ==
    SeededContext(getenv_is_true(env, "DRY_RUN"), getenv_is_true(env, "AUTO_APPROVE"),
                  os_getenv(env, "AWS_REGION"), os_getenv(env, "AWS_PROFILE"))

\* BaseCommand.setup_context, all four parameters: `region or os.getenv('AWS_REGION')`
BaseCommand_setup_context(env, dry_run, auto_approve, region, profile) ==
    SeededContext(dry_run \/ getenv_is_true(env, "DRY_RUN"),
                  auto_approve \/ getenv_is_true(env, "AUTO_APPROVE"),
                  IF region # "None" THEN region ELSE os_getenv(env, "AWS_REGION"),
                  IF profile # "None" THEN profile ELSE os_getenv(env, "AWS_PROFILE"))

\* callback_base, the first two statements: region and profile are stored in
\* the environment unless the variable is set already
callback_base_region(env, profile, region) ==
    LET e1 == IF region # "None" /\ os_getenv(env, "AWS_REGION") = "None"
              THEN [env EXCEPT !["AWS_REGION"] = region] ELSE env
    IN  IF profile # "None" /\ os_getenv(e1, "AWS_PROFILE") = "None"
        THEN [e1 EXCEPT !["AWS_PROFILE"] = profile] ELSE e1

\* the environment a process starts in
SeedEnvirons ==
    [DRY_RUN : {"unset", "true", "TRUE", "false"}, AUTO_APPROVE : {"unset", "true", "True"},
     SKIP_ACCOUNT_CHECK : {"unset"},
     AWS_REGION : {"unset", "eu-west-1", "ap-south-1"}, AWS_PROFILE : {"unset", "dev"}]

\* the options of the command line; region defaults to 'eu-west-1'
CallbackFlags ==
    [dry_run : BOOLEAN, auto_approve : BOOLEAN, region : {"eu-west-1", "us-east-1"},
     profile : {"None", "prod"}]

\* the arguments of a direct call of setup_context
SetupFlags ==
    [dry_run : BOOLEAN, auto_approve : BOOLEAN, region : {"None", "us-east-1"},
     profile : {"None", "prod"}]

InitSeed ==
    /\ environ \in SeedEnvirons
    /\ context = ExecutionContext_from_environment(environ)
    /\ ctx = NoContext
    /\ cliDryRun = FALSE
    /\ resources = <<>>
    /\ res = Resource("none", "none")
    /\ op = "start"
    /\ trace = <<>>
    /\ raised = "none"
    /\ success_count = 0
    /\ failure_count = 0
    /\ answers = <<>>
    /\ returned = "none"
    /\ NoGraph
    /\ NoCache
    /\ NoWait
    /\ NoCollection

\* the callback of a command group runs callback_base with the options given
SeedCallback ==
    /\ op = "start"
    /\ \E f \in CallbackFlags :
          LET cb == callback_base(callback_base_region(environ, f.profile, f.region),
                                  context, FALSE, f.dry_run, f.auto_approve)
          IN  /\ environ' = cb.environ
              /\ context' = cb.context
              /\ answers' = <<[flags |-> f, environ |-> environ]>>
    /\ op' = "callback"
    /\ UNCHANGED <<ctx, res, trace, raised, resources, success_count, failure_count,
                   cliDryRun, returned, graphVars, cacheVars, waitVars, collection>>

\* `cmd.setup_context()` of a command that follows the callback
SeedCommand ==
    /\ op = "callback"
    /\ ctx' = BaseCommand_setup_context(environ, FALSE, FALSE, "None", "None")
    /\ op' = "setup_context"
    /\ UNCHANGED <<res, trace, raised, resources, success_count, failure_count, answers,
                   environ, context, cliDryRun, returned, graphVars, cacheVars, waitVars, collection>>

\* setup_context called with explicit arguments
SeedSetup ==
    /\ op = "start"
    /\ \E f \in SetupFlags :
          /\ ctx' = BaseCommand_setup_context(environ, f.dry_run, f.auto_approve,
                                              f.region, f.profile)
          /\ answers' = <<[flags |-> f, environ |-> environ]>>
    /\ op' = "setup_context"
    /\ UNCHANGED <<res, trace, raised, resources, success_count, failure_count,
                   environ, context, cliDryRun, returned, graphVars, cacheVars, waitVars, collection>>

NextSeed == SeedCallback \/ SeedCommand \/ SeedSetup

SpecSeed == InitSeed /\ [][NextSeed]_vars

---------------------------------------------------------------------------
(* factory/vpc/VPCFactory.py: VPCResourceCollection and its two filters.   *)

\* the per-type lists `__init__` creates, in the order of the source
collection_lists ==
    <<"subnets", "security_groups", "route_tables", "network_acls", "network_interfaces",
      "nat_gateways", "vpc_endpoints", "internet_gateways", "elastic_ips",
      "vpc_peering_connections">>

ListNames == {collection_lists[i] : i \in DOMAIN collection_lists}

\* VPCResourceCollection(vpc_id): every per-type list starts empty
VPCResourceCollection(vpc_id) ==
    [n \in ListNames \cup {"vpc_id"} |-> IF n = "vpc_id" THEN vpc_id ELSE <<>>]

\* one element of resource.tags
Tag(key, value) == [Key |-> key, Value |-> value]

\* the dict comprehension over resource.tags: a later tag replaces an earlier
\* one of the same Key
resource_tag_dict(tags) ==
    [k \in {tags[i].Key : i \in DOMAIN tags} |->
        tags[CHOOSE i \in DOMAIN tags :
                /\ tags[i].Key = k
                /\ \A j \in DOMAIN tags : tags[j].Key = k => j <= i].Value]

\* dict.get(key): None for a missing key
dict_get(d, key) == IF key \in DOMAIN d THEN d[key] ELSE "None"

matches_tags_any_key(resource, tags) ==
    IF resource.tags = <<>>
    THEN DOMAIN tags = {}
    ELSE \E key \in DOMAIN tags :
            dict_get(resource_tag_dict(resource.tags), key) = tags[key]

\* the closure matches_tags of filter_by_tags
matches_tags(resource, tags) ==
    IF resource.tags = <<>>
    THEN DOMAIN tags = {}
    ELSE \A key \in DOMAIN tags :
            dict_get(resource_tag_dict(resource.tags), key) = tags[key]

\* filter_by_tags: the receiver after the call and the collection returned
filter_by_tags(self, tags) ==
    LET fresh == VPCResourceCollection(self.vpc_id)
        filtered == [n \in DOMAIN fresh |->
                        IF n \in ListNames
                        THEN SelectSeq(self[n], LAMBDA r : matches_tags(r, tags))
                        ELSE fresh[n]]
    IN  [self |-> self, ret |-> filtered, ev |-> <<>>]

\* the events of the is_default_resource() calls of one list comprehension
RECURSIVE default_checks(_, _)
default_checks(list, inp) ==
    IF list = <<>> THEN <<>>
    ELSE is_default_resource(Head(list), inp).ev \o default_checks(Tail(list), inp)

\* the events of the ten list comprehensions, in the order of the source
RECURSIVE default_checks_from(_, _, _)
default_checks_from(self, i, inp) ==
    IF i > Len(collection_lists) THEN <<>>
    ELSE default_checks(self[collection_lists[i]], inp)
         \o default_checks_from(self, i + 1, inp)

\* exclude_default_resources: the receiver after the call and the collection returned
exclude_default_resources(self, inp) ==
    LET fresh == VPCResourceCollection(self.vpc_id)
        filtered == [n \in DOMAIN fresh |->
                        IF n \in ListNames
                        THEN SelectSeq(self[n],
                                       LAMBDA r : ~is_default_resource(r, inp).ret)
                        ELSE fresh[n]]
    IN  [self |-> self, ret |-> filtered, ev |-> default_checks_from(self, 1, inp)]

---------------------------------------------------------------------------
(* Specification of the collection filters: a discovered collection, then  *)
(* one of the two filters is applied to it.                                *)

\* longest per-type list of a discovered collection
MaxListed == 2

\* a resource object with the tags discovery gave it
Tagged(r, tags) == r @@ [tags |-> tags]

\* tag lists as the provider returns them: no Key twice
TagLists ==
    {<<>>, <<Tag("env", "dev")>>, <<Tag("env", "prod")>>,
     <<Tag("team", "net"), Tag("env", "dev")>>}

\* the tags a caller asks for
RequestedTags ==
    {<<>>, [k \in {"env"} |-> "dev"], [k \in {"team"} |-> "net"],
     [k \in {"env", "team"} |-> IF k = "env" THEN "dev" ELSE "net"],
     [k \in {"owner"} |-> "ops"]}

Members(ids, type) ==
    {Tagged([Resource(id, type) EXCEPT !.isDefault = d], t) :
        id \in ids, d \in BOOLEAN, t \in TagLists}

\* lists of distinct resource objects
ListsOf(S) ==
    {s \in SeqsUpTo(S, MaxListed) : \A i, j \in DOMAIN s : i # j => s[i].id # s[j].id}

InterfaceMembers ==
    {Tagged([Resource("eni-a", "network-interface") EXCEPT !.interface_type = "lambda"],
            <<Tag("env", "dev")>>),
     Tagged(Resource("eni-b", "network-interface"), <<>>)}

Collections ==
    {[VPCResourceCollection("vpc-1") EXCEPT !.subnets = s, !.security_groups = g,
                                            !.network_interfaces = e] :
        s \in ListsOf(Members({"subnet-a", "subnet-b"}, "subnet")),
        g \in SeqsUpTo(Members({"sg-a"}, "security-group"), 1),
        e \in ListsOf(InterfaceMembers)}

\* the provider's answers to the describe calls of is_default_resource()
CollectionInputs ==
    {i \in Inputs : /\ i.fault \in {"none", "is_default_resource"}
                    /\ i.mutErr = "ok" /\ i.auxErr = "ok" /\ i.choice
                    /\ i.absentAs = "error" /\ i.progress = "at-once"}

InitCollection ==
    /\ collection \in Collections
    /\ ctx = ExecutionContext(FALSE, TRUE)
    /\ res = Resource("none", "none")
    /\ op = "init"
    /\ trace = <<>>
    /\ raised = "none"
    /\ resources = <<>>
    /\ success_count = 0
    /\ failure_count = 0
    /\ answers = <<>>
    /\ environ = DefaultEnviron
    /\ context = from_environment(DefaultEnviron)
    /\ cliDryRun = FALSE
    /\ returned = "none"
    /\ NoGraph
    /\ NoCache
    /\ NoWait

\* collection.filter_by_tags(tags)
FilterByTags ==
    /\ op = "init"
    /\ \E tags \in RequestedTags :
          LET o == filter_by_tags(collection, tags)
          IN  /\ collection' = o.self
              /\ returned' = o.ret
              /\ trace' = o.ev
              /\ answers' = <<tags>>
    /\ op' = "filter_by_tags"
    /\ UNCHANGED <<ctx, res, raised, resources, success_count, failure_count,
                   environ, context, cliDryRun, graphVars, cacheVars, waitVars>>

\* collection.exclude_default_resources()
ExcludeDefaultResources ==
    /\ op = "init"
    /\ \E inp \in CollectionInputs :
          LET o == exclude_default_resources(collection, inp)
          IN  /\ collection' = o.self
              /\ returned' = o.ret
              /\ trace' = o.ev
              /\ answers' = <<inp>>
    /\ op' = "exclude_default_resources"
    /\ UNCHANGED <<ctx, res, raised, resources, success_count, failure_count,
                   environ, context, cliDryRun, graphVars, cacheVars, waitVars>>

NextCollection == FilterByTags \/ ExcludeDefaultResources

SpecCollection == InitCollection /\ [][NextCollection]_vars

---------------------------------------------------------------------------
(* The polling loops: _wait_for_deletion of NAT gateway and VPC endpoint,  *)
(* _wait_for_detachment of the network interface, one turn per step.       *)

\* `max_wait_time: int = 300` and `time.sleep(10)` of _wait_for_deletion
deletion_max_wait_time == 300
deletion_sleep == 10

max_wait_time(type) ==
    IF type = "network-interface" THEN detach_max_wait_time ELSE deletion_max_wait_time

sleep_seconds(type) ==
    IF type = "network-interface" THEN detach_sleep ELSE deletion_sleep

\* time.sleep(secs): the clock when the call returns
sleep(t, secs) == t + secs

\* `while time.time() - start_time < max_wait_time`
within_budget(t, start, type) == t - start < max_wait_time(type)

Turn(next, ev) == [next |-> next, ev |-> ev]

\* the body of the loop of _wait_for_deletion (NAT gateway, VPC endpoint)
wait_for_deletion_turn_ignores_failed(r, c, inp, api) ==
    LET p == Prefix(c)
        q == DescribeById(r, "wait.describe", inp)
        e == <<Call(api)>>
    IN  IF q = "NotFound" THEN Turn("return", e \o <<Log(p, "deleted successfully")>>)
        ELSE IF q = "Other"
        THEN Turn("break", e \o <<Log(p, "Error checking deletion status")>>)
        ELSE IF q = "empty" \/ r.state = "deleted"
        THEN Turn("return", e \o <<Log(p, "deleted successfully")>>)
        ELSE IF r.state = "deleting" THEN Turn("sleep", e \o <<Log(p, "still deleting")>>)
        ELSE Turn("sleep", e \o <<Log(p, "unexpected state")>>)

wait_for_deletion_turn(r, c, inp, api) ==
    LET p == Prefix(c)
        q == DescribeById(r, "wait.describe", inp)
        e == <<Call(api)>>
    IN  IF q = "NotFound" THEN Turn("return", e \o <<Log(p, "deleted successfully")>>)
        ELSE IF q = "Other"
        THEN Turn("break", e \o <<Log(p, "Error checking deletion status")>>)
        ELSE IF q = "empty" \/ r.state = "deleted"
        THEN Turn("return", e \o <<Log(p, "deleted successfully")>>)
        ELSE IF r.state = "failed" THEN Turn("return", e \o <<Log(p, "deletion failed")>>)
        ELSE IF r.state = "deleting" THEN Turn("sleep", e \o <<Log(p, "still deleting")>>)
        ELSE Turn("sleep", e \o <<Log(p, "unexpected state")>>)

\* the body of the loop of _wait_for_detachment
wait_for_detachment_turn(r, c, inp) ==
    LET p == Prefix(c)
        q == DescribeById(r, "wait.describe", inp)
        e == <<Call("describe_network_interfaces")>>
    IN  IF q = "NotFound" THEN Turn("return", e)
        ELSE IF q # "ok" THEN Turn("break", e \o <<Log(p, "Error checking detachment status")>>)
        ELSE IF ~r.attachment.has \/ r.attachment.status = "detached"
        THEN Turn("return", e \o <<Log(p, "detached successfully")>>)
        ELSE Turn("sleep", e)

wait_turn(r, c, inp) ==
    CASE r.type = "nat-gateway" -> wait_for_deletion_turn(r, c, inp, "describe_nat_gateways")
      [] r.type = "vpc-endpoint" -> wait_for_deletion_turn(r, c, inp, "describe_vpc_endpoints")
      [] r.type = "network-interface" -> wait_for_detachment_turn(r, c, inp)

\* the warning after the loop
TimeoutLog(c) == Log(Prefix(c), "Timeout waiting")

\* the resources a wait starts on: the delete / detach call was accepted
WaitPool ==
    {[Resource("nat-1", "nat-gateway") EXCEPT !.state = st] : st \in {"available", "deleting"}}
    \cup {[Resource("vpce-1", "vpc-endpoint") EXCEPT !.state = "deleting"]}
    \cup {[Resource("eni-1", "network-interface") EXCEPT
              !.attachment = [has |-> TRUE, instance |-> TRUE, attachmentId |-> TRUE,
                              deviceIndex |-> 1, status |-> "detaching"]]}

\* what the provider can hold about r by the time of the next describe call
Progressed(r) ==
    {r, Gone(r)}
    \cup (IF r.type = "network-interface"
          THEN (IF r.attachment.has /\ r.attachment.status = "detaching"
                THEN {[r EXCEPT !.attachment.status = "detached"],
                      [r EXCEPT !.attachment = NoAttachment]}
                ELSE {})
          ELSE (CASE r.state = "available" -> {[r EXCEPT !.state = "deleting"]}
                  [] r.state = "deleting" ->
                       {[r EXCEPT !.state = "deleted"], [r EXCEPT !.state = "failed"]}
                  [] OTHER -> {}))

\* the answers to the describe call of one turn
WaitInputs(r) ==
    {i \in Inputs :
        /\ i.fault \in {"none", "wait.describe"}
        /\ i.mutErr = "ok" /\ i.auxErr = "ok" /\ i.choice /\ i.progress = "at-once"
        /\ (r.present \/ r.type \notin {"nat-gateway", "vpc-endpoint"}) => i.absentAs = "error"}

\* time.time() when the wait is entered
process_start == 7

\* seconds a describe call can take
Latencies == {0, 1}

InitWait ==
    /\ ctx = ExecutionContext(FALSE, TRUE)
    /\ res \in WaitPool
    /\ op = "init"
    /\ trace = <<>>
    /\ raised = "none"
    /\ resources = <<>>
    /\ success_count = 0
    /\ failure_count = 0
    /\ answers = <<>>
    /\ environ = DefaultEnviron
    /\ context = from_environment(DefaultEnviron)
    /\ cliDryRun = FALSE
    /\ returned = "none"
    /\ NoGraph
    /\ NoCache
    /\ NoCollection
    /\ start_time = 0
    /\ clock = process_start

\* the statements before the loop
StartWait ==
    /\ op = "init"
    /\ op' = "waiting"
    /\ start_time' = clock
    /\ trace' = IF res.type = "network-interface" THEN <<>>
                ELSE <<Log(Prefix(ctx), "Waiting for deletion to complete")>>
    /\ UNCHANGED <<ctx, res, raised, resources, success_count, failure_count, answers,
                   environ, context, cliDryRun, returned, graphVars, cacheVars, clock, collection>>

\* one turn of the loop: the describe call, the branches, the sleep
Poll ==
    /\ op = "waiting"
    /\ within_budget(clock, start_time, res.type)
    /\ \E r2 \in Progressed(res), latency \in Latencies :
          \E inp \in WaitInputs(r2) :
             LET t == wait_turn(r2, ctx, inp)
             IN  /\ HasLog(t.ev, "unexpected state")
                       => CountEv(trace, Log(Prefix(ctx), "unexpected state")) < MaxStale
                 /\ res' = r2
                 /\ answers' = <<inp>>
                 /\ clock' = IF t.next = "sleep"
                             THEN sleep(clock + latency, sleep_seconds(res.type))
                             ELSE clock + latency
                 /\ trace' = trace \o t.ev
                                \o (IF t.next = "break" THEN <<TimeoutLog(ctx)>> ELSE <<>>)
                 /\ op' = IF t.next = "sleep" THEN "waiting" ELSE "returned"
                 /\ returned' = IF t.next = "sleep" THEN returned ELSE "None"
    /\ UNCHANGED <<ctx, raised, resources, success_count, failure_count,
                   environ, context, cliDryRun, graphVars, cacheVars, start_time, collection>>

\* the loop condition is false: the warning after the loop, then return
Timeout ==
    /\ op = "waiting"
    /\ ~within_budget(clock, start_time, res.type)
    /\ op' = "returned"
    /\ returned' = "None"
    /\ trace' = trace \o <<TimeoutLog(ctx)>>
    /\ UNCHANGED <<ctx, res, raised, resources, success_count, failure_count, answers,
                   environ, context, cliDryRun, graphVars, cacheVars, waitVars, collection>>

NextWait == StartWait \/ Poll \/ Timeout

\* the loop is sequential code of one thread: a step that can be taken is taken
SpecWait == InitWait /\ [][NextWait]_vars /\ WF_vars(NextWait)

---------------------------------------------------------------------------
(* Properties of remove() and clean() called on one resource (Spec).       *)

DryRun == ctx.present /\ ctx.dry_run
Approving == ctx.present /\ ctx.auto_approve /\ ~ctx.dry_run
Interactive == ~(ctx.present /\ (ctx.dry_run \/ ctx.auto_approve))

\* what remove() saw of can_delete(), and of the gate
Eligible(s) == \E i \in 1..Len(s) : s[i] = Ev("can_delete", "true", "")
Ineligible(s) == \E i \in 1..Len(s) : s[i] = Ev("can_delete", "false", "")
GateReached(s) == \E i \in 1..Len(s) : s[i].kind = "gate"

C2_DefaultNeverDeleted ==
    \A inp \in InputsFor("remove", res) :
        is_default_resource(res, inp).ret =>
            /\ ~can_delete(res, inp).ret
            /\ ~HasMutatingCall(remove(res, ctx, inp).ev)

C2_Witness ==
    /\ op = "remove" /\ Approving /\ res.present /\ res.isDefault
    /\ HasLog(trace, "Cannot delete default resource")
    /\ Ineligible(trace)

\* C3: when some dependency d of r has d.exists() true, r.can_delete() is
\* false and r.remove() issues no delete call.
C3_LiveDependencyBlocks ==
    \A inp \in InputsFor("remove", res) :
        (\E k \in 1..Len(res.deps) : exists(res.deps[k], inp).ret) =>
            /\ ~can_delete(res, inp).ret
            /\ ~HasCall(remove(res, ctx, inp).ev, DeleteCall(res.type))

C3_Witness ==
    /\ op = "remove" /\ Approving /\ res.present /\ Len(res.deps) > 0
    /\ HasLog(trace, "dependency exists")
    /\ ~HasLog(trace, "Cannot delete default resource")

\* C5: with dry_run and auto_approve both true the gate answers false, no
\* mutating call follows, and log_prefix is "[DRY-RUN] ".
C5_DryRunWins ==
    (ctx.present /\ ctx.dry_run /\ ctx.auto_approve) =>
        /\ log_prefix(ctx) = "[DRY-RUN] "
        /\ \A inp \in InputsFor("remove", res) : ~_should_proceed(res, ctx, inp).ret
        /\ (op \in {"remove", "clean"}) =>
              /\ ~HasMutatingCall(trace)
              /\ \A i \in 1..Len(trace) :
                    /\ (trace[i].kind = "gate") => trace[i].what = "false"
                    /\ trace[i].prefix \in {"", "[DRY-RUN] "}

C5_Witness ==
    /\ ctx.present /\ ctx.dry_run /\ ctx.auto_approve
    /\ op = "remove"
    /\ \E i \in 1..Len(trace) : trace[i] = Gate("false")
    /\ \E i \in 1..Len(trace) : trace[i] = Log("[DRY-RUN] ", "Would <op>")

\* C6 as stated: with neither dry_run nor auto_approve (or no context) the
\* gate prompts and returns the user's choice, without ending in an error.
C6_GateReturnsChoice ==
    Interactive =>
        /\ \A inp \in InputsFor("remove", res) :
              LET g == _should_proceed(res, ctx, inp)
              IN  ~g.raised /\ g.ret = inp.choice
        /\ (op = "remove" /\ GateReached(trace)) =>
              /\ raised = "none"
              /\ \E i \in 1..Len(trace) : trace[i].kind = "prompt"

\* C7 as stated: remove() with an approving context on a resource the
\* provider no longer knows never raises and ends in the NotFound-classified
\* outcome, not in the eligibility failure, the first time and every time after.
C7_RemoveAbsentIsNotFound ==
    [][(~res.present /\ Approving /\ op' = "remove") =>
          /\ raised' = "none"
          /\ HasLog(trace', "not found - may have been deleted already")
          /\ ~HasLog(trace', "Cannot delete")]_vars

\* C8: remove() runs the eligibility check, then the gate, then the provider
\* delete; when can_delete() is false neither the gate nor a mutating call
\* follows, for every context.
C8_EligibilityGateDelete ==
    (op = "remove") =>
        LET cd == FirstIndex(trace, "can_delete", {"true", "false"})
            gate == FirstIndex(trace, "gate", {"true", "false", "raise"})
        IN  /\ cd > 0
            /\ \A i \in 1..Len(trace) :
                  /\ (trace[i].kind = "gate") => (Eligible(trace) /\ cd < i)
                  /\ (trace[i].kind = "call" /\ trace[i].what \in MutatingCalls)
                        => (Eligible(trace) /\ gate > 0 /\ gate < i)
            /\ Ineligible(trace) => (~GateReached(trace) /\ ~HasMutatingCall(trace))

C8_Witness ==
    /\ op = "remove" /\ Approving /\ res.present /\ ~res.isDefault /\ res.deps = <<>>
    /\ Ineligible(trace)
    /\ ~GateReached(trace)

---------------------------------------------------------------------------
(* Properties of the removal paths of BaseCommand (SpecBatch).             *)

IsRemove(e) == e.kind = "remove"
Summary == Log(log_prefix(ctx), "Batch operation complete")
Failed == Log("", "Failed to remove resource")

\* the resources of the list whose remove() raises under the answers given
Raising(rs, c, plan) == {i \in 1..Len(rs) : call_remove(rs[i], c, plan[i]).raised}

\* C4: a batch over a non-empty list of N resources calls remove on all N in
\* order, reports K failures and N-K successes where K resources raised, and
\* logs the summary once, after the last resource.
C4_BatchTally ==
    [][(op' = "remove_by_tags" /\ resources # <<>>) =>
          LET N == Len(resources)
              K == Cardinality(Raising(resources, ctx, answers'))
              removes == SelectSeq(trace', IsRemove)
          IN  /\ Len(removes) = N
              /\ \A i \in 1..N : removes[i].what = resources[i].id
              /\ failure_count' = K
              /\ success_count' = N - K
              /\ CountEv(trace', Summary) = 1
              /\ trace'[Len(trace')] = Summary]_vars

C4_Witness ==
    /\ op = "remove_by_tags" /\ Len(resources) = MaxBatch
    /\ failure_count = 1 /\ success_count = MaxBatch - 1
    /\ \E i \in 1..Len(trace) : \E j \in (i + 1)..Len(trace) :
          trace[i] = Failed /\ trace[j].kind = "remove"

\* C9: _execute_removal hands the exception of resource.remove to its caller;
\* _execute_batch_removal lets none escape, logs the failure and goes on.
C9_SingleRaisesBatchContains ==
    [][/\ (op' = "remove_by_id") =>
             LET m == call_remove(res, ctx, answers'[1])
             IN  raised' = (IF m.raised THEN m.ret ELSE "none")
       /\ (op' = "remove_by_tags") =>
             /\ raised' = "none"
             /\ CountEv(trace', Failed) = Cardinality(Raising(resources, ctx, answers'))]_vars

C9_Witness ==
    /\ op = "remove_by_id" /\ raised = "TypeError"
    /\ trace[Len(trace)] = Failed
    /\ \E i \in 1..Len(trace) : trace[i] = Gate("raise")

\* C18: batch removal of an empty list logs "No resources to process", calls
\* remove on nothing, issues no provider call and logs no tally.
C18_EmptyBatch ==
    (op = "remove_by_tags" /\ resources = <<>>) =>
        /\ trace = <<Log("", "No resources to process")>>
        /\ raised = "none"
        /\ success_count = 0 /\ failure_count = 0
        /\ \A i \in 1..Len(trace) :
              /\ trace[i].kind \notin {"call", "remove"}
              /\ trace[i].what # "Batch operation complete"

C18_Witness ==
    /\ op = "remove_by_tags" /\ resources = <<>> /\ ctx.present /\ ctx.auto_approve
    /\ HasLog(trace, "No resources to process")

---------------------------------------------------------------------------
(* Properties of the CLI process (SpecCli).                                *)

\* C10 as stated: once the callback ran with dry-run enabled, no command of
\* the process issues a mutating provider call.
C10_DryRunProcess ==
    (cliDryRun /\ op \in S3Commands) => ~HasMutatingCall(trace)

---------------------------------------------------------------------------
(* Properties of remove() over every class (SpecResources).                *)

\* C11 as stated: in a trace of remove() every mutating provider call is
\* preceded by an evaluation of the confirmation gate that returned true.
C11_GateBeforeMutation ==
    (op = "remove") =>
        \A i \in 1..Len(trace) :
            (trace[i].kind = "call" /\ trace[i].what \in MutatingCalls)
                => \E j \in 1..(i - 1) : trace[j] = Gate("true")

\* C12 as stated: remove() raises no structured provider error (ClientError)
\* to its caller, whichever provider call of it fails.
C12_RemoveNeverRaisesProviderError ==
    (op = "remove") => raised # "ClientError"

---------------------------------------------------------------------------
(* Properties of the queries (SpecQuery).                                  *)

\* how the describe call of exists() / is_default_resource() ended
QueryOutcome(site) == DescribeById(res, site, answers[1])

\* C13: exists() of a VPC-scoped resource answers False when its query fails
\* with the not-found code, True when it fails with any other provider error,
\* and raises in neither case.
C13_ExistsOnError ==
    (op = "exists") =>
        /\ raised = "none"
        /\ returned \in BOOLEAN
        /\ (QueryOutcome("exists") = "NotFound") => (returned = FALSE)
        /\ (QueryOutcome("exists") = "Other") => (returned = TRUE)

C13_Witness ==
    /\ op = "exists" /\ res.present /\ res.type = "nat-gateway"
    /\ answers[1].fault = "exists" /\ returned = TRUE
    /\ HasLog(trace, "Error checking existence")

\* C14: is_default_resource() of a subnet or a security group answers True
\* without raising when its query fails, and False only when the provider
\* answered and reported the resource as not default.
C14_DefaultFailsClosed ==
    (op = "is_default_resource" /\ res.type \in {"subnet", "security-group"}) =>
        /\ raised = "none"
        /\ returned \in BOOLEAN
        /\ (QueryOutcome("is_default_resource") # "ok") => (returned = TRUE)
        /\ (returned = FALSE) => (QueryOutcome("is_default_resource") = "ok" /\ ~res.isDefault)

C14_Witness ==
    /\ op = "is_default_resource" /\ res.type = "subnet" /\ res.present /\ ~res.isDefault
    /\ answers[1].fault = "is_default_resource" /\ returned = TRUE
    /\ HasLog(trace, "Error checking default")

\* C17: for a subnet that is not default, has no live dependency and meets no
\* query error, can_delete() is True exactly when the provider reports no
\* network interface in the subnet and no instance in a counted state.
C17_SubnetCanDelete ==
    (/\ op = "can_delete" /\ res.type = "subnet" /\ res.present /\ ~res.isDefault
     /\ answers[1].fault = "none"
     /\ \A k \in 1..Len(res.deps) : ~exists(res.deps[k], answers[1]).ret) =>
        (returned <=> (res.enis = <<>> /\ res.instances = 0))

\* can_delete() answered False with an interface in the subnet, clean() removed
\* the interface, and can_delete() then answered True
C17_Witness ==
    /\ op = "can_delete" /\ res.type = "subnet" /\ returned = TRUE
    /\ HasLog(trace, "has network interfaces")
    /\ HasCall(trace, "delete_network_interface")

---------------------------------------------------------------------------
(* Properties of the dependency graph (SpecGraph).                         *)

NoDuplicates(list) == \A i, j \in 1..Len(list) : (list[i] = list[j]) => (i = j)

\* C15: after any sequence of add_dependency calls, b is in a.dependencies
\* exactly when a is in b.dependents, no list holds an object twice, and
\* repeating add_dependency(a, b) for an edge already there changes nothing.
C15_EdgesSymmetric ==
    /\ \A a \in Objects, b \in Objects :
          In(b, dependencies[a]) <=> In(a, dependents[b])
    /\ \A a \in Objects : NoDuplicates(dependencies[a]) /\ NoDuplicates(dependents[a])
    /\ \A a \in Objects, b \in Objects :
          In(b, dependencies[a]) =>
              add_dependency(dependencies, dependents, a, b)
                 = [dependencies |-> dependencies, dependents |-> dependents]

\* two objects depending on each other, one of them also on itself
C15_Witness ==
    /\ op = "add_dependency"
    /\ \E a \in Objects, b \in Objects :
          /\ a # b
          /\ In(b, dependencies[a]) /\ In(a, dependencies[b]) /\ In(a, dependencies[a])
          /\ Len(dependents[a]) = 2

---------------------------------------------------------------------------
(* Properties of the client cache (SpecCache).                             *)

\* C16 as stated: over any sequence of get_client calls a client handle for one
\* (service, region) pair is created at most once, and every later call with
\* the pair returns that handle.
C16_ClientCreatedOnce ==
    /\ \A i, j \in 1..Len(created) : (created[i] = created[j]) => (i = j)
    /\ (op = "get_client") =>
          \E i \in 1..Len(created) :
              /\ created[i].kind = "client" /\ returned = i
              /\ \A j \in 1..(i - 1) : created[j] # created[i]

\* C19: can_delete() consults only the direct dependencies: exists() is called
\* on no resource other than an entry of r.dependencies, and a dependency d that
\* no longer exists does not block r even when d depends on a resource that does.
C19_DirectDependenciesOnly ==
    (op = "can_delete") =>
        /\ \A i \in 1..Len(trace) :
              (trace[i].kind = "exists")
                  => \E k \in 1..Len(res.deps) : res.deps[k].id = trace[i].what
        /\ (/\ ~HasLog(trace, "Cleaning dependencies")
            /\ \A k \in 1..Len(res.deps) : ~exists(res.deps[k], answers[1]).ret)
              => ~HasLog(trace, "dependency exists")

\* r -> d -> e with d gone and e alive: the walk asked d, and r can be deleted
C19_Witness ==
    /\ op = "can_delete" /\ returned = TRUE /\ Len(res.deps) > 0
    /\ ~res.deps[1].present /\ Len(res.deps[1].deps) = 1
    /\ exists(res.deps[1].deps[1], answers[1]).ret
    /\ trace[1] = Ev("exists", res.deps[1].id, "") \/ trace[2] = Ev("exists", res.deps[1].id, "")

\* the provider delete calls of the VPC-scoped classes
VPCScoped ==
    {"subnet", "security-group", "network-interface", "nat-gateway", "vpc-endpoint"}
VPCDeleteCalls == {DeleteCall(t) : t \in VPCScoped}

\* positions of the delete calls in a trace
Attempts(s) == {k \in 1..Len(s) : s[k].kind = "call" /\ s[k].what \in VPCDeleteCalls}

\* the number of delete calls remove() owes for r: one when can_delete() is
\* true and the gate returns true, none otherwise
Owed(r, c, inp) ==
    LET g == _should_proceed(r, c, inp)
    IN  IF can_delete(r, inp).ret /\ ~g.raised /\ g.ret THEN 1 ELSE 0

\* s holds exactly the delete calls owed for r, each the call of r's class
\* issued with r's id
OneAttempt(s, r, c, inp) ==
    /\ Cardinality(Attempts(s)) = Owed(r, c, inp)
    /\ \A k \in Attempts(s) :
          s[k] = Call(DeleteCall(r.type)) /\ k > 1 /\ s[k - 1] = Arg(r.id)

\* position of the i-th remove() of a batch, and the events of that remove()
RemoveAt(s, i) ==
    CHOOSE k \in 1..Len(s) :
        IsRemove(s[k]) /\ Cardinality({j \in 1..k : IsRemove(s[j])}) = i
SegmentOf(s, i, n) ==
    SubSeq(s, RemoveAt(s, i), IF i < n THEN RemoveAt(s, i + 1) - 1 ELSE Len(s))

\* C20: one remove() of a VPC-scoped resource issues its delete call once, with
\* the id of the resource, when can_delete() is true and the gate approves, and
\* not at all otherwise, whatever the provider answers to the call; a batch
\* calls remove() once per entry of the list, in the order of the list.
C20_OneDeletionAttempt ==
    [][/\ (op' = "remove_by_id" /\ res.type \in VPCScoped) =>
             OneAttempt(trace', res, ctx, answers'[1])
       /\ (op' = "remove_by_tags") =>
             LET N == Len(resources)
                 removes == SelectSeq(trace', IsRemove)
             IN  /\ Len(removes) = N
                 /\ \A i \in 1..N :
                       /\ removes[i].what = resources[i].id
                       /\ (resources[i].type \in VPCScoped) =>
                             OneAttempt(SegmentOf(trace', i, N), resources[i], ctx,
                                        answers'[i])]_vars

\* a batch of two: the delete of the first is refused with DependencyViolation,
\* the batch goes on and deletes the second
C20_Witness ==
    /\ op = "remove_by_tags" /\ Len(resources) = MaxBatch
    /\ Cardinality(Attempts(trace)) = MaxBatch
    /\ \E i \in Attempts(trace) : \E j \in Attempts(trace) :
          /\ i < j
          /\ trace[i + 1].what = "dependency violation"
          /\ trace[j + 1].what \in {"Successfully deleted", "Initiated deletion"}

---------------------------------------------------------------------------
(* Properties of can_delete() of the gateway and the interface (SpecQuery). *)

\* no dependency of res answers exists() with True
NoLiveDependency == \A k \in 1..Len(res.deps) : ~exists(res.deps[k], answers[1]).ret

\* C21: for a NAT gateway with no live dependency whose queries are answered,
\* can_delete() is True exactly when the provider returns the gateway in state
\* available or failed and no route of a route table of the VPC names it.
C21_NatGatewayCanDelete ==
    (/\ op = "can_delete" /\ res.type = "nat-gateway"
     /\ answers[1].fault = "none" /\ NoLiveDependency) =>
        (returned <=> (/\ res.present
                       /\ res.state \in {"available", "failed"}
                       /\ RoutesClear(res.routeTables)))

\* can_delete() answered False for a route naming the gateway, clean() removed
\* the route, and can_delete() then answered True
C21_Witness ==
    /\ op = "can_delete" /\ res.type = "nat-gateway" /\ returned = TRUE
    /\ HasLog(trace, "referenced by route table")
    /\ HasCall(trace, "delete_route")

\* C22: for an interface the provider knows that is not AWS-managed, has no
\* live dependency and whose queries are answered, can_delete() is True exactly
\* when the interface is neither attached to an instance at device index 0 nor
\* attached to an instance in state pending, running or stopping.
C22_InterfaceCanDelete ==
    (/\ op = "can_delete" /\ res.type = "network-interface" /\ res.present
     /\ answers[1].fault = "none" /\ NoLiveDependency
     /\ ~is_default_resource(res, answers[1]).ret) =>
        LET a == res.attachment
            onInstance == a.has /\ a.instance
        IN  returned <=> ~(/\ onInstance
                           /\ \/ a.deviceIndex = 0
                              \/ res.instanceState \in {"pending", "running", "stopping"})

\* an interface at a non-zero index of a stopped instance is deletable
C22_Witness ==
    /\ op = "can_delete" /\ res.type = "network-interface" /\ returned = TRUE
    /\ res.attachment.instance /\ res.attachment.deviceIndex = 1
    /\ res.instanceState = "stopped"
    /\ HasCall(trace, "describe_instances")

---------------------------------------------------------------------------
(* Properties of the polling loops (SpecWait).                             *)

\* the provider's answer to the describe call of the last turn ends the wait:
\* the resource is gone, deleted or failed, or the interface is detached
Final(r, inp) ==
    LET q == DescribeById(r, "wait.describe", inp)
    IN  \/ q \in {"NotFound", "empty"}
        \/ /\ q = "ok"
           /\ IF r.type = "network-interface"
              THEN ~r.attachment.has \/ r.attachment.status = "detached"
              ELSE r.state \in {"deleted", "failed"}

\* the describe calls issued so far
Polls(s) == Cardinality({k \in 1..Len(s) : s[k].kind = "call"})

\* the turns a budget allows when every turn sleeps
MaxTurns(type) == (max_wait_time(type) + sleep_seconds(type) - 1) \div sleep_seconds(type)

\* C23: each wait loop ends. It returns in the turn in which the provider
\* reports the resource gone, deleted, failed or detached; otherwise it stops
\* after at most budget / sleep turns or at a provider error, with the timeout
\* warning as its last log; it raises nothing.
C23_WaitLoopsTerminate ==
    /\ [](/\ raised = "none"
          /\ Polls(trace) <= MaxTurns(res.type)
          /\ (op = "waiting" /\ answers # <<>>) => ~Final(res, answers[1])
          /\ (op = "returned") =>
                /\ returned = "None"
                /\ (answers # <<>> /\ Final(res, answers[1]))
                      <=> (trace[Len(trace)] # TimeoutLog(ctx)))
    /\ <>(op = "returned")

\* the gateway stayed in state deleting for the whole budget
C23_Witness ==
    /\ op = "returned" /\ res.type = "nat-gateway" /\ res.state = "deleting"
    /\ Polls(trace) = MaxTurns("nat-gateway")
    /\ clock - start_time >= deletion_max_wait_time
    /\ trace[Len(trace)] = TimeoutLog(ctx)

---------------------------------------------------------------------------
(* Properties of the seeding of the context (SpecSeed).                    *)

\* C24 as stated: the context a command works with holds the flags given where
\* one was given and the environment of the process where none was: dry_run and
\* auto_approve are true exactly when the flag is set or the variable reads
\* 'true' in any case, region and profile are the option when one was given and
\* AWS_REGION / AWS_PROFILE otherwise.
C24_FlagsBeforeEnvironment ==
    (op = "setup_context") =>
        LET f == answers[1].flags
            env == answers[1].environ
        IN  /\ ctx.dry_run <=> (f.dry_run \/ lower(os_getenv(env, "DRY_RUN")) = "true")
            /\ ctx.auto_approve
                  <=> (f.auto_approve \/ lower(os_getenv(env, "AUTO_APPROVE")) = "true")
            /\ ctx.region = (IF f.region # "None" THEN f.region
                             ELSE os_getenv(env, "AWS_REGION"))
            /\ ctx.profile = (IF f.profile # "None" THEN f.profile
                              ELSE os_getenv(env, "AWS_PROFILE"))

---------------------------------------------------------------------------
(* C25: the two filters of VPCResourceCollection.                          *)

\* the positions of list s a filter with condition Keep retains
Kept(s, Keep(_)) == {i \in DOMAIN s : Keep(s[i])}

\* t holds exactly the elements of s that satisfy Keep, in the order of s
IsSelection(t, s, Keep(_)) ==
    /\ Len(t) = Cardinality(Kept(s, Keep))
    /\ \A i \in Kept(s, Keep) : t[Cardinality({j \in Kept(s, Keep) : j <= i})] = s[i]

\* the tags of the resource contain the key with the value
ContainsTag(r, key, value) ==
    \E i \in DOMAIN r.tags : r.tags[i].Key = key /\ r.tags[i].Value = value

\* C25: filter_by_tags and exclude_default_resources leave every per-type list
\* of the receiver unchanged and return a collection of the same vpc_id whose
\* per-type lists are the receiver's lists restricted, in order, to the
\* resources kept: those whose is_default_resource() is false for
\* exclude_default_resources, those whose tags contain every requested key
\* with the requested value for filter_by_tags.
C25_FiltersArePure ==
    [][/\ (op' \in {"filter_by_tags", "exclude_default_resources"}) =>
             /\ collection' = collection
             /\ DOMAIN returned' = DOMAIN collection
             /\ returned'.vpc_id = collection.vpc_id
       /\ (op' = "filter_by_tags") =>
             \A n \in ListNames :
                IsSelection(returned'[n], collection[n],
                            LAMBDA r : \A key \in DOMAIN answers'[1] :
                                          ContainsTag(r, key, answers'[1][key]))
       /\ (op' = "exclude_default_resources") =>
             \A n \in ListNames :
                IsSelection(returned'[n], collection[n],
                            LAMBDA r : ~is_default_resource(r, answers'[1]).ret)]_vars

\* a tag filter on two keys kept the second of two subnets and dropped the first
C25_Witness ==
    /\ op = "filter_by_tags"
    /\ DOMAIN answers[1] = {"env", "team"}
    /\ Len(collection.subnets) = 2
    /\ returned.subnets = <<collection.subnets[2]>>
    /\ collection.subnets[1].tags # <<>>
    /\ Len(collection.network_interfaces) = 2
    /\ returned.network_interfaces = <<>>

---------------------------------------------------------------------------
(* C26: the usage queries of can_delete() fail closed.                     *)

\* the messages of the except branches of the usage queries of can_delete()
UsageErrorLogs ==
    {"Error checking interfaces", "Error checking instances", "Error checking references",
     "Error checking interface", "Error checking instance state",
     "Error checking route tables", "Error checking NAT Gateway"}

\* a usage query of can_delete() was made and answered with a provider error
UsageQueryFailed(s) == \E msg \in UsageErrorLogs : HasLog(s, msg)

\* the classes whose can_delete() queries usage
UsageChecked == {"subnet", "security-group", "nat-gateway", "network-interface"}

\* C26: when a provider query of can_delete() about the usage of a subnet,
\* security group, NAT gateway or network interface fails with a provider
\* error, can_delete() returns False and remove() issues no delete call.
C26_UsageQueriesFailClosed ==
    (/\ op = "remove" /\ res.type \in UsageChecked /\ UsageQueryFailed(trace)) =>
        /\ Ineligible(trace) /\ ~Eligible(trace)
        /\ Attempts(trace) = {}
        /\ raised = "none"

\* remove() of a security group reached the query of the group references,
\* which failed
C26_Witness ==
    /\ op = "remove" /\ res.type = "security-group"
    /\ HasCall(trace, "describe_network_interfaces")
    /\ HasCall(trace, "describe_instances")
    /\ HasCall(trace, "describe_security_groups")
    /\ HasLog(trace, "Error checking references")
    /\ Attempts(trace) = {}

---------------------------------------------------------------------------
(* C27: subnet clean and the interfaces protected as AWS-managed.          *)

\* NetworkInterfaceResource.is_default_resource() of an interface of the type
ProtectedType(itype) ==
    NetworkInterfaceResource_is_default_resource(
        [Resource("eni", "network-interface") EXCEPT !.interface_type = itype], <<>>).ret

\* the interfaces of a subnet that are protected as AWS-managed
ProtectedEnis(enis) == SelectSeq(enis, LAMBDA e : ProtectedType(e.itype))

\* C27 as stated: clean() of a subnet skips every interface whose type
\* NetworkInterfaceResource.is_default_resource() protects, so the protected
\* interfaces of the subnet are the same after clean() and no detach or delete
\* call is made when every interface of the subnet is protected.
C27_ManagedInterfacesSkipped ==
    [][(op' = "clean" /\ res.type = "subnet") =>
          /\ ProtectedEnis(res'.enis) = ProtectedEnis(res.enis)
          /\ (ProtectedEnis(res.enis) = res.enis) =>
                (~HasCall(trace', "detach_network_interface")
                 /\ ~HasCall(trace', "delete_network_interface"))]_vars

---------------------------------------------------------------------------
(* C28: clean() of a protected default security group or subnet.           *)

\* is_default_resource() of r is True when its describe call is answered
ProtectedDefault(r) == \A inp \in SingleInputs : is_default_resource(r, inp).ret

\* C28 as stated: clean() with a non-dry-run context on a security group or
\* subnet whose is_default_resource() is True issues no mutating provider
\* call: it revokes no rule, detaches or deletes no interface and
\* disassociates no route table.
C28_CleanSparesDefaults ==
    (/\ op = "clean" /\ res.type \in {"security-group", "subnet"}
     /\ ~(ctx.present /\ ctx.dry_run)
     /\ ProtectedDefault(res)) =>
        ~HasMutatingCall(trace)

---------------------------------------------------------------------------
(* C29: what the batch summary counts as failed.                           *)

\* C29 as stated: a VPC-scoped resource whose remove() was skipped
\* (eligibility, dry-run, declined confirmation) or whose delete call was
\* answered with a structured error is counted as succeeded, so a batch of
\* VPC-scoped resources whose provider calls fail only with structured
\* errors reports every resource succeeded and none failed.
C29_StructuredErrorsNeverFail ==
    (/\ op = "remove_by_tags"
     /\ \A i \in 1..Len(resources) : resources[i].type \in VPCScoped) =>
        /\ failure_count = 0
        /\ success_count = Len(resources)

---------------------------------------------------------------------------
(* C30: remove() of a network interface and the detachment before it.      *)

\* the detach call failed, or the wait for detachment ended by timeout or by
\* a provider error
DetachmentUnknown(s) ==
    \/ HasLog(s, "Failed to detach")
    \/ HasLog(s, "Timeout waiting to detach")
    \/ HasLog(s, "Error checking detachment status")

\* C30 as stated: remove() of a network interface calls
\* delete_network_interface only once the interface is known to be
\* unattached; after a failed detach call, or a wait for detachment that
\* ended by timeout or by a provider error, it does not make the call.
C30_DeleteOnlyWhenDetached ==
    (/\ op = "remove" /\ res.type = "network-interface"
     /\ DetachmentUnknown(trace)) =>
        ~HasCall(trace, "delete_network_interface")

====
